---- MODULE Spec2Model ----
(***************************************************************************)
(* Balance reconciliation between SIAGRI (system A) and CIGAM (system B):  *)
(* the edit modal of the results page, the update mutation with the        *)
(* query-client retry policy, the three-table update endpoint, and the     *)
(* comparison query with its filters and statistics.                       *)
(*                                                                         *)
(* Text values are sequences of one-character strings, so that length and  *)
(* trim are computed, not assumed.  An optional text that is undefined is  *)
(* the empty sequence: every use in the code coalesces it with `|| ''`.    *)
(* Quantities are integers counting thousandths (Numeric(15,3)).           *)
(***************************************************************************)
EXTENDS Integers, Sequences, FiniteSets, TLC

(***************************************************************************)
(* Bounds of the model.                                                    *)
(***************************************************************************)
MaxEdits == 2
MaxPage == 2
MaxRequests == 4
MaxOptions == 3
MaxRows == 120

(***************************************************************************)
(* Program constants.                                                      *)
(***************************************************************************)
NcmLen == 8
DescMax == 120
UnidMax == 10
CharMax == 1
Scale == 1000
MutationMaxFailures == 2
QueryMaxFailures == 3
DefaultPage == 1
DefaultSize == 50
PageSize == 50

(***************************************************************************)
(* Text helpers: String.prototype.trim, truthiness of a string.            *)
(***************************************************************************)
Rep(c, n) == [i \in 1..n |-> c]

RECURSIVE TrimStart(_)
TrimStart(s) ==
  IF Len(s) > 0 /\ Head(s) = " " THEN TrimStart(Tail(s)) ELSE s

RECURSIVE TrimEnd(_)
TrimEnd(s) ==
  IF Len(s) > 0 /\ s[Len(s)] = " " THEN TrimEnd(SubSeq(s, 1, Len(s) - 1)) ELSE s

Trim(s) == TrimEnd(TrimStart(s))

Truthy(s) == Len(s) > 0

(***************************************************************************)
(* Number.prototype.toString of a quantity: shortest decimal form, no      *)
(* trailing zeros, no decimal point for an integer.                        *)
(***************************************************************************)
DigitChars == <<"0", "1", "2", "3", "4", "5", "6", "7", "8", "9">>

Digits == {DigitChars[i] : i \in 1..10}

DigitVal(c) == (CHOOSE i \in 1..10 : DigitChars[i] = c) - 1

RECURSIVE IntDigits(_)
IntDigits(n) ==
  IF n < 10 THEN <<DigitChars[n + 1]>>
  ELSE Append(IntDigits(n \div 10), DigitChars[(n % 10) + 1])

RECURSIVE StripZeros(_)
StripZeros(s) ==
  IF Len(s) > 0 /\ s[Len(s)] = "0" THEN StripZeros(SubSeq(s, 1, Len(s) - 1)) ELSE s

FracDigits(f) ==
  StripZeros(<<DigitChars[(f \div 100) + 1],
               DigitChars[((f \div 10) % 10) + 1],
               DigitChars[(f % 10) + 1]>>)

NumToString(v) ==
  LET a == IF v < 0 THEN -v ELSE v
      body == IF a % Scale = 0 THEN IntDigits(a \div Scale)
              ELSE IntDigits(a \div Scale) \o <<".">> \o FracDigits(a % Scale)
  IN IF v < 0 THEN <<"-">> \o body ELSE body

(***************************************************************************)
(* parseFloat: skips leading blanks, reads an optional sign, the longest   *)
(* run of digits, an optional point and digits; NaN when no digit was      *)
(* read.  The value is kept in thousandths; the texts of the model carry   *)
(* at most three decimals and no exponent.                                 *)
(***************************************************************************)
RECURSIVE DigitRun(_)
DigitRun(s) ==
  IF Len(s) > 0 /\ Head(s) \in Digits THEN <<Head(s)>> \o DigitRun(Tail(s)) ELSE <<>>

RECURSIVE DigitsValue(_)
DigitsValue(d) ==
  IF Len(d) = 0 THEN 0
  ELSE DigitsValue(SubSeq(d, 1, Len(d) - 1)) * 10 + DigitVal(d[Len(d)])

FracValue(d) ==
  LET at(i) == IF i <= Len(d) THEN DigitVal(d[i]) ELSE 0
  IN at(1) * 100 + at(2) * 10 + at(3)

NaN == [nan |-> TRUE, v |-> 0]

Num(x) == [nan |-> FALSE, v |-> x]

parseFloat(str) ==
  LET s0 == TrimStart(str)
      neg == Len(s0) > 0 /\ Head(s0) = "-"
      s1 == IF Len(s0) > 0 /\ Head(s0) \in {"-", "+"} THEN Tail(s0) ELSE s0
      ip == DigitRun(s1)
      r1 == SubSeq(s1, Len(ip) + 1, Len(s1))
      fp == IF Len(r1) > 0 /\ Head(r1) = "." THEN DigitRun(Tail(r1)) ELSE <<>>
      mag == DigitsValue(ip) * Scale + FracValue(fp)
  IN IF Len(ip) = 0 /\ Len(fp) = 0 THEN NaN
     ELSE Num(IF neg THEN -mag ELSE mag)

isNaN(x) == x.nan

\* `x || 0` on a number: NaN and 0 are falsy.
OrZero(x) == IF x.nan THEN 0 ELSE x.v

\* `x !== n` between a parsed number and a number: NaN differs from everything.
NotSame(x, n) == x.nan \/ x.v # n


\* parseInt of a dropdown code: the digits of the trimmed text, NaN when none.
parseInt(str) ==
  LET d == DigitRun(TrimStart(str))
  IN IF Len(d) = 0 THEN NaN ELSE Num(DigitsValue(d))

(***************************************************************************)
(* Rows of the result list (SaldoItem) that the operator can open in the   *)
(* edit modal.  An optional number that is undefined is 0 (both falsy).    *)
(***************************************************************************)
Row(mat, qa, qb, dif, desc, unid, st, ncm, tipo) ==
  [material |-> mat, empresa |-> 1,
   saldo_siagri |-> qa, saldo_cigam |-> qb, diferenca_saldo |-> dif,
   descricao |-> desc, unidade |-> unid, status |-> st,
   ncm_cla_fiscal |-> ncm, tipo_material |-> tipo, tipo_item |-> <<>>,
   codigo_grupo |-> 80, codigo_subgrupo |-> 0]

ProductSamples ==
  { [Row("M1", 5000, 0, 5000, Rep("x", 3), <<"U", "N">>, "A", Rep("7", 8), <<"U">>)
       EXCEPT !.codigo_subgrupo = 81],
    Row("M2", 200, 100, 100, Rep("x", 3), <<" ">>, "I", <<" ">> \o Rep("7", 7), <<>>) }

NoProduct == Row("", 0, 0, 0, <<>>, <<>>, "A", <<>>, <<>>)

(***************************************************************************)
(* State of the edit modal, of the update mutation and of the endpoint.    *)
(* One behaviour follows the edits of one row of the result list.          *)
(***************************************************************************)
VARIABLES
  items,             \* results page: the rows of the result list
  selectedProduct,   \* results page: the row being edited
  hasProduct,        \* selectedProduct is not null
  editModalOpen,     \* results page: the modal is open
  formData,          \* the form of the modal
  toast,             \* the last toast shown
  mutStatus,         \* useMutation: "idle", "pending", "success", "error"
  failureCount,      \* useMutation: failures of the current mutation
  mutVars,           \* useMutation: the variables of the pending mutation
  reqState,          \* the PUT request: "none", "inflight", "responded"
  reqIssuer,         \* who issued it: "none", "submit" (operator), "retry"
  resp,              \* the response in flight to the client
  orchPc,            \* endpoint: "idle" or "steps"
  orchPayload,       \* endpoint: the body of the request being served
  stepState,         \* endpoint: state of each write step
  db,                \* the three tables' values for the material of the row
  dbBefore,          \* the tables when the endpoint took the request
  saldosStale,       \* the ['saldos'] queries were invalidated
  nEdits,            \* edits made so far
  srcA,              \* what SIAGRI holds: quantity per material, or absent
  srcB,              \* what CIGAM holds: quantity per material, or absent
  adapter,           \* state of each balance adapter in the current query
  fetched,           \* what each adapter returned
  flags,             \* the flags of the current query
  outcome,           \* the query: "idle", "pending", "result", "error"
  errorSystem,       \* the system named by the error of the query
  total,             \* results page: saldosData.total, 0 without data
  form,              \* filter form: the values of the fields
  selectedEmpresa,   \* filter form: useState selectedEmpresa
  selectedGrupo,     \* filter form: useState selectedGrupo
  selectedSubgrupo,  \* filter form: useState selectedSubgrupo
  formError,         \* filter form: the message under the company field
  empresasQuery,     \* the companies query: "pending", "success", "error"
  empresasData,      \* the companies the query returned
  loadingGrupos,     \* filter form: isLoading of the groups query
  loadingSubgrupos,  \* filter form: isLoading of the subgroups query
  loadingMateriais,  \* filter form: isLoading of the materials query
  route,             \* the page shown: "home" or "results"
  origin,            \* how the results page was reached: "form", "url"
  searchParams,      \* the search parameters of the results page
  saldosRequest,     \* the filters the balances query was called with
  requestKeyRef,     \* useApiQuery: requestKeyRef.current, 0 for null
  requests,          \* API client: the state of each request it started
  nRequests,         \* API client: requests started so far
  saldosQuery,       \* results page: the balances query as the page sees it
  detailId,          \* material page: params.id, "" when not shown
  detailRow,         \* the row whose "Ver detalhes" was chosen
  detailSent,        \* the arguments of the detail request
  detailAnswer,      \* material page: how getDetalheMaterial ended
  detailView,        \* material page: what is rendered
  options,           \* DropdownSelect: the options prop
  shown,             \* DropdownSelect: the items rendered
  picked,            \* DropdownSelect: the value given to onValueChange
  pagination,        \* results table: useState pagination
  tableRows,         \* results table: the rows it shows, by rank in the result
  pagingSent         \* results table: pagination parameters of each request

vars == <<items, total, srcA, srcB, adapter, fetched, flags, outcome, errorSystem,
          selectedProduct, hasProduct, editModalOpen, formData, toast,
          mutStatus, failureCount, mutVars, reqState, reqIssuer, resp, orchPc,
          orchPayload, stepState, db, dbBefore, saldosStale, nEdits,
          form, selectedEmpresa, selectedGrupo, selectedSubgrupo, formError,
          empresasQuery, empresasData, loadingGrupos, loadingSubgrupos,
          loadingMateriais, route, origin, searchParams,
          saldosRequest, requestKeyRef, requests, nRequests, saldosQuery,
          detailId, detailRow, detailSent,
          detailAnswer, detailView, options, shown, picked, pagination,
          tableRows, pagingSent>>

EmptyForm ==
  [saldo_siagri |-> <<>>, saldo_cigam |-> <<>>, observacoes |-> <<>>,
   desc_psv |-> <<>>, unid_psv |-> <<>>, situ_psv |-> "A", codi_cfp |-> <<>>,
   codi_gpr |-> <<>>, codi_sbg |-> <<>>, codi_tip |-> <<>>, prse_psv |-> <<>>]

\* `n ? n.toString().trim() : ''` for a code.
CodeText(n) == IF n # 0 THEN IntDigits(n) ELSE <<>>

\* The effect on the product: the form takes the values of the row.
FormOf(p) ==
  [saldo_siagri |-> NumToString(p.saldo_siagri),
   saldo_cigam |-> NumToString(p.saldo_cigam),
   observacoes |-> <<>>,
   desc_psv |-> p.descricao,
   unid_psv |-> Trim(p.unidade),
   situ_psv |-> p.status,
   codi_cfp |-> p.ncm_cla_fiscal,
   codi_gpr |-> CodeText(p.codigo_grupo),
   codi_sbg |-> CodeText(p.codigo_subgrupo),
   codi_tip |-> Trim(p.tipo_item),
   prse_psv |-> Trim(p.tipo_material)]

EmptyPayload ==
  [material_id |-> "", empresa_id |-> <<>>,
   novo_saldo_siagri |-> 0, novo_saldo_cigam |-> 0, observacoes |-> <<>>,
   desc_psv |-> <<>>, unid_psv |-> <<>>, situ_psv |-> "A", clas_psv |-> <<>>,
   codi_cfp |-> <<>>, codi_gpr |-> 0, codi_sbg |-> 0, codi_tip |-> 0,
   prse_psv |-> <<>>]

\* `text ? parseInt(text) : undefined`; undefined and NaN are both sent as no number.
CodeNumber(text) == IF Truthy(text) THEN OrZero(parseInt(text)) ELSE 0

\* The fields of the request body that JSON.stringify keeps: every field
\* whose value is not undefined.
SuppliedFields(d) ==
  {"material_id", "empresa_id", "novo_saldo_siagri", "novo_saldo_cigam",
   "desc_psv", "unid_psv", "situ_psv"}
    \cup (IF Truthy(d.observacoes) THEN {"observacoes"} ELSE {})
    \cup (IF Truthy(d.codi_cfp) THEN {"codi_cfp"} ELSE {})
    \cup (IF d.codi_gpr # 0 THEN {"codi_gpr"} ELSE {})
    \cup (IF d.codi_sbg # 0 THEN {"codi_sbg"} ELSE {})
    \cup (IF d.codi_tip # 0 THEN {"codi_tip"} ELSE {})
    \cup (IF Truthy(d.prse_psv) THEN {"prse_psv"} ELSE {})

updateData(p, f) ==
  [material_id |-> p.material,
   empresa_id |-> IntDigits(p.empresa),
   novo_saldo_siagri |-> parseFloat(f.saldo_siagri).v,
   novo_saldo_cigam |-> parseFloat(f.saldo_cigam).v,
   observacoes |-> Trim(f.observacoes),
   desc_psv |-> Trim(f.desc_psv),
   unid_psv |-> Trim(f.unid_psv),
   situ_psv |-> f.situ_psv,
   clas_psv |-> <<>>,
   codi_cfp |-> Trim(f.codi_cfp),
   codi_gpr |-> CodeNumber(f.codi_gpr),
   codi_sbg |-> CodeNumber(f.codi_sbg),
   codi_tip |-> CodeNumber(f.codi_tip),
   prse_psv |-> f.prse_psv]

\* The preview computed as CIGAM minus SIAGRI.
calcularDiferencaInvertida(f) ==
  OrZero(parseFloat(f.saldo_cigam)) - OrZero(parseFloat(f.saldo_siagri))

calcularNovaDiferenca(f) ==
  OrZero(parseFloat(f.saldo_siagri)) - OrZero(parseFloat(f.saldo_cigam))

houveMudanca(p, f) ==
  \/ NotSame(parseFloat(f.saldo_siagri), p.saldo_siagri)
  \/ NotSame(parseFloat(f.saldo_cigam), p.saldo_cigam)
  \/ f.desc_psv # p.descricao
  \/ f.unid_psv # p.unidade
  \/ f.situ_psv # p.status
  \/ f.codi_cfp # p.ncm_cla_fiscal

isPending == mutStatus = "pending"

\* A submit button that looks only at the changes of the form.
SubmitDisabledWhenUnchanged == ~houveMudanca(selectedProduct, formData)

SubmitDisabled == isPending \/ ~houveMudanca(selectedProduct, formData)

(***************************************************************************)
(* What the operator can put in a field of the form: free text for the     *)
(* description, numbers for the balances, at most 8 digits for the NCM     *)
(* (maxLength, non-digits removed), an option of the list for the unit     *)
(* and for the status.                                                     *)
(***************************************************************************)
FieldSamples ==
  [saldo_siagri |-> {<<>>, <<"0", ".", "3">>},
   saldo_cigam |-> {<<"0", ".", "1">>},
   desc_psv |-> {<<" ">>, Rep("x", DescMax + 1)},
   unid_psv |-> {<<"K", "G">>},
   situ_psv |-> {"I"},
   codi_cfp |-> {Rep("1", NcmLen - 1), Rep("1", NcmLen)},
   codi_gpr |-> {<<"9", "0">>},
   codi_sbg |-> {<<"9", "1">>}]

(***************************************************************************)
(* The write steps of the endpoint, in the order it runs its queries.      *)
(***************************************************************************)
\* The fiscal-classification table written before the material record.
StepOrderSwapped == <<"PRODUTO", "PRODSERV", "ESMATERI">>

StepOrder == <<"PRODSERV", "PRODUTO", "ESMATERI">>

Steps == {StepOrder[i] : i \in 1..Len(StepOrder)}

IdleSteps == [t \in Steps |-> "idle"]

NoResp == [status |-> 0, committedSteps |-> <<>>, failedSteps |-> <<>>]

\* What a row of the result list shows is what the tables hold.
RowValue(p, t) ==
  IF t = "PRODSERV" THEN <<p.descricao, p.status>> ELSE <<p.ncm_cla_fiscal>>

DbOf(p) == [t \in Steps |-> RowValue(p, t)]

(***************************************************************************)
(* The data of the two systems and the comparison query.  A system holds,  *)
(* for each material, a quantity or nothing.                               *)
(***************************************************************************)
MatOrder == <<"M1", "M2">>

MatIds == {MatOrder[i] : i \in 1..Len(MatOrder)}

\* The material codes as numbers.
MatCode == [M1 |-> 1, M2 |-> 2]

Quantities == {0, 100, 300}

Systems == {"A", "B"}

Absent == [present |-> FALSE, qty |-> 0]

Held(q) == [present |-> TRUE, qty |-> q]

Holdings == [MatIds -> {Absent} \cup {Held(q) : q \in Quantities}]

NoData == [m \in MatIds |-> Absent]

NoFlags ==
  [apenas_divergentes |-> FALSE, saldos_positivos_siagri |-> FALSE,
   saldos_positivos_cigam |-> FALSE]

AllFlags ==
  [apenas_divergentes : BOOLEAN, saldos_positivos_siagri : BOOLEAN,
   saldos_positivos_cigam : BOOLEAN]

FlagNames == {"apenas_divergentes", "saldos_positivos_siagri", "saldos_positivos_cigam"}

\* The status of a material (active or inactive), whatever its balances.
StatusOf(m) == IF m = "M2" THEN "I" ELSE "A"

COALESCE(x, d) == IF x.present THEN x.qty ELSE d

\* One row of the comparison query: S1 is the balance of SIAGRI, S2 the
\* left-joined balance of CIGAM.
CompareRow(m, S1, S2) ==
  Row(m, S1[m].qty, COALESCE(S2[m], 0), S1[m].qty - COALESCE(S2[m], 0),
      Rep("x", 3), <<"U", "N">>, StatusOf(m), <<>>, <<>>)

\* FROM SALDO_SIAGRI S1 LEFT JOIN SALDO_CIGAM S2, in the order of the code.
ComparisonQuery(S1, S2) ==
  LET InS1(m) == S1[m].present
      found == SelectSeq(MatOrder, InS1)
  IN [i \in 1..Len(found) |-> CompareRow(found[i], S1, S2)]

\* The filter written with >= in place of <>.
DivergentOnlyLoose(rows) ==
  LET NotBelow(r) == r.saldo_siagri >= r.saldo_cigam
  IN SelectSeq(rows, NotBelow)

\* WHERE S1.SALDO <> COALESCE(S2.SALDO, 0)
DivergentOnly(rows) ==
  LET Differ(r) == r.saldo_siagri # r.saldo_cigam
  IN SelectSeq(rows, Differ)

PositivosSiagri(rows) ==
  LET Positive(r) == r.saldo_siagri > 0
  IN SelectSeq(rows, Positive)

PositivosCigam(rows) ==
  LET Positive(r) == r.saldo_cigam > 0
  IN SelectSeq(rows, Positive)

\* Only the first flag that is set is applied.
ApplyFirstFlag(rows, fl) ==
  IF fl.apenas_divergentes THEN DivergentOnly(rows)
  ELSE IF fl.saldos_positivos_siagri THEN PositivosSiagri(rows)
  ELSE IF fl.saldos_positivos_cigam THEN PositivosCigam(rows)
  ELSE rows

\* The filters of a query are a conjunction.
ApplyFilters(rows, fl) ==
  LET d == IF fl.apenas_divergentes THEN DivergentOnly(rows) ELSE rows
      a == IF fl.saldos_positivos_siagri THEN PositivosSiagri(d) ELSE d
  IN IF fl.saldos_positivos_cigam THEN PositivosCigam(a) ELSE a

Min(a, b) == IF a < b THEN a ELSE b

\* Math.ceil(n / d) for n >= 0 and d > 0.
CeilDiv(n, d) == (n + d - 1) \div d

\* Pages cut with the offset page * size.
PageOfNextOffset(rows, page, size) ==
  SubSeq(rows, Min(page * size, Len(rows)) + 1, Min((page + 1) * size, Len(rows)))

\* The page-th page of size rows, pages counted from 1.
PageOf(rows, page, size) ==
  SubSeq(rows, Min((page - 1) * size, Len(rows)) + 1, Min(page * size, Len(rows)))

\* An answer whose total counts the rows of the page.
SaldoResponseOfPage(all, fl, page, size) ==
  LET its == PageOf(ApplyFilters(all, fl), page, size)
  IN [items |-> its, total |-> Len(its), page |-> page, size |-> size,
      pages |-> CeilDiv(Len(its), size)]

\* The answer of /saldos: the filtered rows of the page and the pagination
\* metadata.
SaldoResponse(all, fl, page, size) ==
  LET filtered == ApplyFilters(all, fl)
  IN [items |-> PageOf(filtered, page, size), total |-> Len(filtered),
      page |-> page, size |-> size, pages |-> CeilDiv(Len(filtered), size)]

\* useReactTable: pageCount of the table, 0 without data.
pageCount(hasData, tot, pageSize) ==
  IF hasData THEN CeilDiv(tot, pageSize) ELSE 0

\* The rows the mock backend answers for /api/v1/estoque, in thousandths.
MockEstoque ==
  << [codigo |-> "P001", estoque_siagri |-> 100 * Scale,
      estoque_cigam |-> 95 * Scale, divergencia |-> 5 * Scale],
     [codigo |-> "P002", estoque_siagri |-> 50 * Scale,
      estoque_cigam |-> 50 * Scale, divergencia |-> 0] >>

\* The statistics cards of the results page.
stats(its) ==
  LET Count(P(_)) == Cardinality({i \in 1..Len(its) : P(its[i])})
      IsI(item) == item.status = "I"
      IsA(item) == item.status = "A"
      OnlyS(item) == item.saldo_siagri > 0 /\ item.saldo_cigam = 0
      OnlyC(item) == item.saldo_cigam > 0 /\ item.saldo_siagri = 0
  IN [total |-> Len(its),
      divergentes |-> Count(IsI),
      ok |-> Count(IsA),
      apenas_siagri |-> Count(OnlyS),
      apenas_cigam |-> Count(OnlyC)]

\* The e2e helper: the conditions every item of the API answer must meet.
\* The balances of the JSON answer are numbers; parseFloat reads their text.
validateResults(its, fl) ==
  \A i \in 1..Len(its) :
    LET siagri == OrZero(parseFloat(NumToString(its[i].saldo_siagri)))
        cigam == OrZero(parseFloat(NumToString(its[i].saldo_cigam)))
    IN /\ fl.apenas_divergentes => siagri # cigam
       /\ fl.saldos_positivos_siagri => siagri > 0
       /\ fl.saldos_positivos_cigam => cigam > 0

InitModal ==
  /\ selectedProduct = NoProduct
  /\ hasProduct = FALSE
  /\ editModalOpen = FALSE
  /\ formData = EmptyForm
  /\ toast = ""
  /\ mutStatus = "idle"
  /\ failureCount = 0
  /\ mutVars = EmptyPayload
  /\ reqState = "none"
  /\ reqIssuer = "none"
  /\ resp = NoResp
  /\ orchPc = "idle"
  /\ orchPayload = EmptyPayload
  /\ stepState = IdleSteps
  /\ saldosStale = FALSE
  /\ nEdits = 0

InitQuery ==
  /\ adapter = [s \in Systems |-> "idle"]
  /\ fetched = [s \in Systems |-> NoData]
  /\ flags = NoFlags
  /\ outcome = "idle"
  /\ errorSystem = ""
  /\ total = 0

\* useForm defaultValues.
\* No row chosen, no detail requested.
NoDetail == [material |-> "", empresa |-> ""]

\* A query no page observes.
IdleQuery == [status |-> "idle", failureCount |-> 0, error |-> ""]

DefaultForm ==
  [empresa_id |-> "", grupo_id |-> "", subgrupo_id |-> "", material_id |-> "",
   apenas_divergentes |-> FALSE, saldos_positivos_siagri |-> FALSE,
   saldos_positivos_cigam |-> FALSE]

\* A URL without search parameters; "" stands for a parameter that is absent.
NoParams ==
  [empresa_id |-> "", grupo_id |-> "", subgrupo_id |-> "", material_id |-> "",
   apenas_divergentes |-> "", saldos_positivos_siagri |-> "",
   saldos_positivos_cigam |-> ""]

NoRequest == [sent |-> FALSE, filters |-> NoParams]

InitFilters ==
  /\ form = DefaultForm
  /\ selectedEmpresa = ""
  /\ selectedGrupo = ""
  /\ selectedSubgrupo = ""
  /\ formError = ""
  /\ empresasQuery = "pending"
  /\ empresasData = {}
  /\ loadingGrupos = TRUE
  /\ loadingSubgrupos = FALSE
  /\ loadingMateriais = FALSE
  /\ route = "home"
  /\ origin = "none"
  /\ searchParams = NoParams
  /\ saldosRequest = NoRequest
  /\ requestKeyRef = 0
  /\ requests = [n \in 1..MaxRequests |-> "none"]
  /\ nRequests = 0
  /\ saldosQuery = IdleQuery
  /\ detailId = ""
  /\ detailRow = NoDetail
  /\ detailSent = NoDetail
  /\ detailAnswer = ""
  /\ detailView = "none"
  /\ options = <<>>
  /\ shown = <<>>
  /\ picked = <<>>
  /\ pagination = [pageIndex |-> 0, pageSize |-> PageSize]
  /\ tableRows = <<>>
  /\ pagingSent = <<>>

\* The update flow starts from a result list that shows one row.
Init ==
  /\ \E p \in ProductSamples :
       /\ items = <<p>>
       /\ db = DbOf(p)
       /\ dbBefore = DbOf(p)
  /\ srcA = NoData
  /\ srcB = NoData
  /\ InitModal
  /\ InitQuery
  /\ InitFilters

cmpVars == <<srcA, srcB, adapter, fetched, flags, outcome, errorSystem>>
mutationVars == <<mutStatus, failureCount, mutVars, reqState, reqIssuer, resp>>
endpointVars == <<orchPc, orchPayload, stepState, db, dbBefore>>
modalVars == <<selectedProduct, hasProduct, editModalOpen, formData>>
formVars == <<form, selectedEmpresa, selectedGrupo, selectedSubgrupo, formError>>
empresasVars == <<empresasQuery, empresasData>>
optionVars == <<loadingGrupos, loadingSubgrupos, loadingMateriais>>
navVars == <<route, origin, searchParams, saldosRequest>>
hookVars == <<requestKeyRef, requests, nRequests, saldosQuery>>
detailVars == <<detailId, detailRow, detailSent, detailAnswer, detailView>>
dropdownVars == <<options, shown, picked>>
tableVars == <<pagination, tableRows, pagingSent>>
pageVars == <<formVars, empresasVars, optionVars, navVars, hookVars, detailVars,
              dropdownVars, tableVars>>
resultsVars == <<items, total, cmpVars, modalVars, toast, mutationVars,
                 endpointVars, saldosStale, nEdits>>

(***************************************************************************)
(* Results page: "Editar produto" on the row; the effect on the product    *)
(* fills the form.                                                         *)
(***************************************************************************)
OpenModal ==
  /\ ~editModalOpen
  /\ \E i \in 1..Len(items) :
       /\ selectedProduct' = items[i]
       /\ formData' = FormOf(items[i])
  /\ hasProduct' = TRUE
  /\ editModalOpen' = TRUE
  /\ UNCHANGED <<pageVars, total, items, cmpVars, toast, mutationVars, endpointVars, saldosStale, nEdits>>

\* The groups the groups query answers, and the subgroups the subgroups
\* query answers for a group.
ModalGrupos == {<<"8", "0">>, <<"9", "0">>}

ModalSubgrupos(g) ==
  IF g = <<"8", "0">> THEN {<<"8", "1">>}
  ELSE IF g = <<"9", "0">> THEN {<<"9", "1">>}
  ELSE {}

\* What the dropdown of a field offers: the subgroup dropdown is disabled
\* without a group and lists the subgroups of the group of the form.
Offered(f, v) ==
  IF f = "codi_gpr" THEN v \in ModalGrupos
  ELSE IF f = "codi_sbg"
       THEN Truthy(formData.codi_gpr) /\ v \in ModalSubgrupos(formData.codi_gpr)
       ELSE TRUE

\* An input or a dropdown of the form changes one field, and only that
\* field (updateFormField).
EditFieldIn(fields) ==
  /\ editModalOpen /\ hasProduct
  /\ nEdits < MaxEdits
  /\ \E f \in fields : \E v \in FieldSamples[f] :
       /\ formData[f] # v
       /\ Offered(f, v)
       /\ formData' = [formData EXCEPT ![f] = v]
  /\ nEdits' = nEdits + 1
  /\ UNCHANGED <<pageVars, total, items, cmpVars, selectedProduct, hasProduct, editModalOpen, toast,
                 mutationVars, endpointVars, saldosStale>>

EditField == EditFieldIn(DOMAIN FieldSamples)

\* handleClose followed by the onClose of the results page.
CloseEffect ==
  /\ formData' = EmptyForm
  /\ editModalOpen' = FALSE
  /\ selectedProduct' = NoProduct
  /\ hasProduct' = FALSE

\* Cancel button (disabled while pending) or the dialog's onOpenChange.
handleClose ==
  /\ editModalOpen
  /\ CloseEffect
  /\ UNCHANGED <<pageVars, total, items, cmpVars, toast, mutationVars, endpointVars, saldosStale, nEdits>>

(***************************************************************************)
(* handleSubmit: the checks in the order of the code, then mutate.  The    *)
(* mutationFn issues the PUT at once.                                      *)
(***************************************************************************)
MsgSiagri == "Saldo SIAGRI deve ser um numero valido e nao negativo"
MsgCigam == "Saldo CIGAM deve ser um numero valido e nao negativo"
MsgDesc == "Descricao e obrigatoria"
MsgUnid == "Unidade e obrigatoria"
MsgNcm == "NCM deve ter exatamente 8 caracteres"
MsgOk == "Produto atualizado com sucesso!"
MsgErr == "Erro ao atualizar produto"

\* handleSubmit without the check of the NCM.
SubmitVerdictNoNcm(f) ==
  LET a == parseFloat(f.saldo_siagri)
      b == parseFloat(f.saldo_cigam)
  IN IF isNaN(a) \/ a.v < 0 THEN MsgSiagri
     ELSE IF isNaN(b) \/ b.v < 0 THEN MsgCigam
     ELSE IF ~Truthy(Trim(f.desc_psv)) THEN MsgDesc
     ELSE IF ~Truthy(Trim(f.unid_psv)) THEN MsgUnid
     ELSE ""

\* handleSubmit with the required fields tested before trimming.
SubmitVerdictNoTrim(f) ==
  LET a == parseFloat(f.saldo_siagri)
      b == parseFloat(f.saldo_cigam)
  IN IF isNaN(a) \/ a.v < 0 THEN MsgSiagri
     ELSE IF isNaN(b) \/ b.v < 0 THEN MsgCigam
     ELSE IF ~Truthy(f.desc_psv) THEN MsgDesc
     ELSE IF ~Truthy(f.unid_psv) THEN MsgUnid
     ELSE IF Truthy(Trim(f.codi_cfp)) /\ Len(Trim(f.codi_cfp)) # NcmLen THEN MsgNcm
     ELSE ""

SubmitVerdict(f) ==
  LET a == parseFloat(f.saldo_siagri)
      b == parseFloat(f.saldo_cigam)
  IN IF isNaN(a) \/ a.v < 0 THEN MsgSiagri
     ELSE IF isNaN(b) \/ b.v < 0 THEN MsgCigam
     ELSE IF ~Truthy(Trim(f.desc_psv)) THEN MsgDesc
     ELSE IF ~Truthy(Trim(f.unid_psv)) THEN MsgUnid
     ELSE IF Truthy(Trim(f.codi_cfp)) /\ Len(Trim(f.codi_cfp)) # NcmLen THEN MsgNcm
     ELSE ""

handleSubmit ==
  /\ editModalOpen /\ hasProduct
  /\ ~SubmitDisabled
  /\ IF SubmitVerdict(formData) # ""
     THEN /\ toast' = SubmitVerdict(formData)
          /\ UNCHANGED mutationVars
     ELSE /\ mutStatus' = "pending"
          /\ failureCount' = 0
          /\ mutVars' = updateData(selectedProduct, formData)
          /\ reqState' = "inflight"
          /\ reqIssuer' = "submit"
          /\ resp' = NoResp
          /\ UNCHANGED toast
  /\ UNCHANGED <<pageVars, total, items, cmpVars, modalVars, endpointVars, saldosStale, nEdits>>

(***************************************************************************)
(* The query client's default for mutations, and how the mutation settles. *)
(* The retryer calls retry(failureCount, error) with the failures so far.  *)
(* A response without HTTP status (network error) has status 0.            *)
(***************************************************************************)
mutationsRetry(count, status) ==
  IF status >= 400 /\ status < 500 THEN FALSE
  ELSE count < MutationMaxFailures

\* The request fails before it reaches the endpoint.
NetworkFail ==
  /\ reqState = "inflight" /\ orchPc = "idle"
  /\ reqState' = "responded"
  /\ resp' = NoResp
  /\ UNCHANGED <<pageVars, total, items, cmpVars, modalVars, toast, mutStatus, failureCount, mutVars,
                 reqIssuer, endpointVars, saldosStale, nEdits>>

Failed(r) == r.status # 200

\* onSuccess: toast, invalidate the balances queries, handleClose.
MutationSuccess ==
  /\ reqState = "responded" /\ ~Failed(resp)
  /\ mutStatus' = "success"
  /\ mutVars' = EmptyPayload
  /\ reqState' = "none"
  /\ reqIssuer' = "none"
  /\ resp' = NoResp
  /\ toast' = MsgOk
  /\ saldosStale' = TRUE
  /\ CloseEffect
  /\ UNCHANGED <<pageVars, total, items, cmpVars, failureCount, endpointVars, nEdits>>

\* The retryer issues the request again.
MutationRetry ==
  /\ reqState = "responded" /\ Failed(resp)
  /\ mutationsRetry(failureCount, resp.status)
  /\ failureCount' = failureCount + 1
  /\ reqState' = "inflight"
  /\ reqIssuer' = "retry"
  /\ resp' = NoResp
  /\ UNCHANGED <<pageVars, total, items, cmpVars, modalVars, toast, mutStatus, mutVars, endpointVars,
                 saldosStale, nEdits>>

\* An onError that closes the modal as onSuccess does.
MutationErrorCloses ==
  /\ reqState = "responded" /\ Failed(resp)
  /\ ~mutationsRetry(failureCount, resp.status)
  /\ mutStatus' = "error"
  /\ mutVars' = EmptyPayload
  /\ failureCount' = failureCount + 1
  /\ reqState' = "none"
  /\ reqIssuer' = "none"
  /\ resp' = NoResp
  /\ toast' = MsgErr
  /\ CloseEffect
  /\ UNCHANGED <<pageVars, total, items, cmpVars, endpointVars, saldosStale, nEdits>>

\* onError: the toast; the modal stays as it is.
MutationError ==
  /\ reqState = "responded" /\ Failed(resp)
  /\ ~mutationsRetry(failureCount, resp.status)
  /\ mutStatus' = "error"
  /\ mutVars' = EmptyPayload
  /\ failureCount' = failureCount + 1
  /\ reqState' = "none"
  /\ reqIssuer' = "none"
  /\ resp' = NoResp
  /\ toast' = MsgErr
  /\ UNCHANGED <<pageVars, total, items, cmpVars, modalVars, endpointVars, saldosStale, nEdits>>

(***************************************************************************)
(* The update endpoint (PUT /material/{codigo}): pre-flight validation,    *)
(* then the three writes in StepOrder, each of which commits or fails on   *)
(* its own; nothing is rolled back.  After a failure of the second write   *)
(* the endpoint either answers at once or still runs the third.            *)
(***************************************************************************)
PreflightOk(d) ==
  /\ Truthy(d.desc_psv)
  /\ Truthy(d.unid_psv)
  /\ Truthy(d.codi_cfp) => Len(d.codi_cfp) = NcmLen
  /\ Len(d.desc_psv) <= DescMax
  /\ Len(d.unid_psv) <= UnidMax
  /\ Len(d.clas_psv) <= CharMax
  /\ Len(d.prse_psv) <= CharMax

StepValue(d, t) ==
  IF t = "PRODSERV" THEN <<d.desc_psv, d.situ_psv>> ELSE <<d.codi_cfp>>

Running == \E t \in Steps : stepState[t] = "running"

CanBegin(i) ==
  \/ i = 1
  \/ i = 2 /\ stepState[StepOrder[1]] = "committed"
  \/ i = 3 /\ stepState[StepOrder[2]] \in {"committed", "failed"}

StepsOf(st, kind) ==
  LET Is(t) == st[t] = kind
  IN SelectSeq(StepOrder, Is)

\* A report that counts a failed step as committed.
ReportOptimistic(st) ==
  [status |-> IF \E t \in Steps : st[t] = "failed" THEN 500 ELSE 200,
   committedSteps |-> SelectSeq(StepOrder, LAMBDA t : st[t] # "idle"),
   failedSteps |-> StepsOf(st, "failed")]

Report(st) ==
  [status |-> IF \E t \in Steps : st[t] = "failed" THEN 500 ELSE 200,
   committedSteps |-> StepsOf(st, "committed"),
   failedSteps |-> StepsOf(st, "failed")]

ValidationError == [status |-> 422, committedSteps |-> <<>>, failedSteps |-> <<>>]

EndpointReceive ==
  /\ reqState = "inflight" /\ orchPc = "idle"
  /\ stepState' = IdleSteps
  /\ dbBefore' = db
  /\ IF PreflightOk(mutVars)
     THEN /\ orchPc' = "steps"
          /\ orchPayload' = mutVars
          /\ UNCHANGED <<reqState, resp>>
     ELSE /\ orchPc' = "idle"
          /\ orchPayload' = EmptyPayload
          /\ reqState' = "responded"
          /\ resp' = ValidationError
  /\ UNCHANGED <<pageVars, total, items, cmpVars, modalVars, toast, mutStatus, failureCount, mutVars,
                 reqIssuer, db, saldosStale, nEdits>>

StepBegin ==
  /\ orchPc = "steps" /\ ~Running
  /\ \E i \in 1..Len(StepOrder) :
       /\ stepState[StepOrder[i]] = "idle"
       /\ CanBegin(i)
       /\ stepState' = [stepState EXCEPT ![StepOrder[i]] = "running"]
  /\ UNCHANGED <<pageVars, total, items, cmpVars, modalVars, toast, mutationVars, orchPc, orchPayload,
                 db, dbBefore, saldosStale, nEdits>>

StepCommit ==
  /\ orchPc = "steps"
  /\ \E t \in Steps :
       /\ stepState[t] = "running"
       /\ stepState' = [stepState EXCEPT ![t] = "committed"]
       /\ db' = [db EXCEPT ![t] = StepValue(orchPayload, t)]
  /\ UNCHANGED <<pageVars, total, items, cmpVars, modalVars, toast, mutationVars, orchPc, orchPayload,
                 dbBefore, saldosStale, nEdits>>

\* The system is unreachable or the step times out.
StepFail ==
  /\ orchPc = "steps"
  /\ \E t \in Steps :
       /\ stepState[t] = "running"
       /\ stepState' = [stepState EXCEPT ![t] = "failed"]
  /\ UNCHANGED <<pageVars, total, items, cmpVars, modalVars, toast, mutationVars, orchPc, orchPayload,
                 db, dbBefore, saldosStale, nEdits>>

EndpointRespond ==
  /\ orchPc = "steps" /\ ~Running
  /\ \/ \E t \in Steps : stepState[t] = "failed"
     \/ \A t \in Steps : stepState[t] = "committed"
  /\ orchPc' = "idle"
  /\ reqState' = "responded"
  /\ resp' = Report(stepState)
  /\ orchPayload' = EmptyPayload
  /\ stepState' = IdleSteps
  /\ UNCHANGED <<pageVars, total, items, cmpVars, modalVars, toast, mutStatus, failureCount, mutVars,
                 reqIssuer, db, dbBefore, saldosStale, nEdits>>

(***************************************************************************)
(* The comparison query: the two balance adapters are invoked together and *)
(* complete, fail or time out independently; the comparison waits for both *)
(* or fails on the first failure, naming the system that failed.           *)
(***************************************************************************)
QueryRunning == outcome = "pending"

\* Some adapter answered with data before the comparison is built.
AnySucceeded == \E s \in Systems : adapter[s] = "ok"

AllSucceeded == \A s \in Systems : adapter[s] = "ok"

FailedSystems == {s \in Systems : adapter[s] \in {"failed", "timeout"}}

\* The results page runs the query of the filters of the URL.
QueryStart ==
  /\ ~QueryRunning /\ ~editModalOpen
  /\ flags' \in AllFlags
  /\ adapter' = [s \in Systems |-> "pending"]
  /\ fetched' = [s \in Systems |-> NoData]
  /\ outcome' = "pending"
  /\ errorSystem' = ""
  /\ items' = <<>>
  /\ total' = 0
  /\ UNCHANGED <<pageVars, srcA, srcB, modalVars, toast, mutationVars, endpointVars,
                 saldosStale, nEdits>>

AdapterOk ==
  /\ QueryRunning
  /\ \E s \in Systems :
       /\ adapter[s] = "pending"
       /\ adapter' = [adapter EXCEPT ![s] = "ok"]
       /\ fetched' = [fetched EXCEPT ![s] = IF s = "A" THEN srcA ELSE srcB]
  /\ UNCHANGED <<pageVars, total, items, srcA, srcB, flags, outcome, errorSystem, modalVars,
                 toast, mutationVars, endpointVars, saldosStale, nEdits>>

AdapterFail ==
  /\ QueryRunning
  /\ \E s \in Systems :
       /\ adapter[s] = "pending"
       /\ adapter' = [adapter EXCEPT ![s] = "failed"]
  /\ UNCHANGED <<pageVars, total, items, srcA, srcB, fetched, flags, outcome, errorSystem,
                 modalVars, toast, mutationVars, endpointVars, saldosStale,
                 nEdits>>

AdapterTimeout ==
  /\ QueryRunning
  /\ \E s \in Systems :
       /\ adapter[s] = "pending"
       /\ adapter' = [adapter EXCEPT ![s] = "timeout"]
  /\ UNCHANGED <<pageVars, total, items, srcA, srcB, fetched, flags, outcome, errorSystem,
                 modalVars, toast, mutationVars, endpointVars, saldosStale,
                 nEdits>>

\* Both adapters answered: the rows are built, filtered and shown.
CompareDone ==
  /\ QueryRunning
  /\ AllSucceeded
  /\ outcome' = "result"
  /\ LET r == SaldoResponse(ComparisonQuery(fetched["A"], fetched["B"]), flags,
                             DefaultPage, DefaultSize)
     IN items' = r.items /\ total' = r.total
  /\ UNCHANGED <<pageVars, srcA, srcB, adapter, fetched, flags, errorSystem, modalVars,
                 toast, mutationVars, endpointVars, saldosStale, nEdits>>

\* SourceUnavailableError tagged with a system that failed.
CompareFail ==
  /\ QueryRunning
  /\ \E s \in FailedSystems : errorSystem' = s
  /\ outcome' = "error"
  /\ UNCHANGED <<pageVars, total, items, srcA, srcB, adapter, fetched, flags, modalVars, toast,
                 mutationVars, endpointVars, saldosStale, nEdits>>

\* The operator types a new balance in the modal.
EditSaldo == EditFieldIn({"saldo_siagri", "saldo_cigam"})

InitCompare ==
  /\ srcA \in Holdings
  /\ srcB \in Holdings
  /\ items = <<>>
  /\ db = DbOf(NoProduct)
  /\ dbBefore = DbOf(NoProduct)
  /\ InitModal
  /\ InitQuery
  /\ InitFilters

NextCompare ==
  \/ QueryStart
  \/ AdapterOk
  \/ AdapterFail
  \/ AdapterTimeout
  \/ CompareDone
  \/ CompareFail
  \/ OpenModal
  \/ EditSaldo
  \/ handleClose

Next ==
  \/ OpenModal
  \/ EditField
  \/ handleClose
  \/ handleSubmit
  \/ NetworkFail
  \/ MutationSuccess
  \/ MutationRetry
  \/ MutationError
  \/ EndpointReceive
  \/ StepBegin
  \/ StepCommit
  \/ StepFail
  \/ EndpointRespond

Spec == Init /\ [][Next]_vars

SpecCompare == InitCompare /\ [][NextCompare]_vars

(***************************************************************************)
(* The filter page: the form of the filters, its dropdown queries, the     *)
(* navigation to the results page.                                         *)
(***************************************************************************)
\* What the filter endpoints answer: companies, groups, the subgroups of a
\* group, the materials of a group and subgroup.
Empresas == {"1", "2"}
Grupos == {"10", "20"}
SubgruposDe(g) ==
  IF g = "10" THEN {"11"} ELSE IF g = "20" THEN {"21"} ELSE {}
GrupoDoMaterial == [M1 |-> "10", M2 |-> "20"]
SubgrupoDoMaterial == [M1 |-> "11", M2 |-> "21"]
MateriaisDe(g, sg) ==
  {m \in MatIds : /\ g # "" => GrupoDoMaterial[m] = g
                  /\ sg # "" => SubgrupoDoMaterial[m] = sg}

\* The component state the effects read and write.
FormState(f, e, g, sg) ==
  [form |-> f, selectedEmpresa |-> e, selectedGrupo |-> g, selectedSubgrupo |-> sg]

\* An effect on selectedGrupo that leaves the subgroup in the form.
GrupoEffectKeepsSubgrupo(cur, acc) ==
  IF cur.selectedGrupo # ""
  THEN [acc EXCEPT !.form.material_id = ""]
  ELSE acc

\* useEffect on selectedEmpresa: cur is the render the effect closes over,
\* acc the form values and pending state updates.
EmpresaEffect(cur, acc) ==
  IF cur.selectedEmpresa # ""
  THEN [acc EXCEPT !.form.grupo_id = "", !.form.subgrupo_id = "",
                   !.form.material_id = "", !.selectedGrupo = "",
                   !.selectedSubgrupo = ""]
  ELSE acc

\* useEffect on selectedGrupo.
GrupoEffect(cur, acc) ==
  IF cur.selectedGrupo # ""
  THEN [acc EXCEPT !.form.subgrupo_id = "", !.form.material_id = "",
                   !.selectedSubgrupo = ""]
  ELSE acc

\* useEffect on selectedSubgrupo.
SubgrupoEffect(cur, acc) ==
  IF cur.selectedSubgrupo # ""
  THEN [acc EXCEPT !.form.material_id = ""]
  ELSE acc

\* The effects of one commit, in the order of their declaration: each runs
\* when its dependency differs from the previous render.
Commit(prev, cur) ==
  LET a1 == IF cur.selectedEmpresa # prev.selectedEmpresa
            THEN EmpresaEffect(cur, cur) ELSE cur
      a2 == IF cur.selectedGrupo # prev.selectedGrupo
            THEN GrupoEffect(cur, a1) ELSE a1
  IN IF cur.selectedSubgrupo # prev.selectedSubgrupo
     THEN SubgrupoEffect(cur, a2) ELSE a2

\* The renders that follow an event, until no effect changes the state.
RunEffects(prev, cur) ==
  LET s1 == Commit(prev, cur)
      s2 == Commit(cur, s1)
  IN Commit(s1, s2)

Current == FormState(form, selectedEmpresa, selectedGrupo, selectedSubgrupo)

\* The component goes to the state the event and its effects lead to.
Becomes(st) ==
  LET after == RunEffects(Current, st)
  IN /\ form' = after.form
     /\ selectedEmpresa' = after.selectedEmpresa
     /\ selectedGrupo' = after.selectedGrupo
     /\ selectedSubgrupo' = after.selectedSubgrupo
     /\ loadingSubgrupos' =
          IF after.selectedGrupo = "" THEN FALSE
          ELSE IF after.selectedGrupo # selectedGrupo THEN TRUE
          ELSE loadingSubgrupos
     /\ loadingMateriais' =
          IF after.selectedEmpresa = "" THEN FALSE
          ELSE IF <<after.selectedEmpresa, after.selectedGrupo, after.selectedSubgrupo>>
                    # <<selectedEmpresa, selectedGrupo, selectedSubgrupo>>
               THEN TRUE
          ELSE loadingMateriais

\* The companies query answers.
EmpresasLoaded ==
  /\ empresasQuery = "pending"
  /\ empresasQuery' = "success"
  /\ empresasData' \in {Empresas, {}}
  /\ UNCHANGED <<formVars, optionVars, navVars, hookVars, detailVars, resultsVars, dropdownVars, tableVars>>

\* The companies query fails, for instance with HTTP 500.
EmpresasFailed ==
  /\ empresasQuery = "pending"
  /\ empresasQuery' = "error"
  /\ UNCHANGED <<empresasData, formVars, optionVars, navVars, hookVars, detailVars, resultsVars, dropdownVars, tableVars>>

loadingEmpresas == empresasQuery = "pending"

\* `data: empresasRaw = []` mapped and filtered for the options.
empresas == IF empresasQuery = "success" THEN empresasData ELSE {}

\* What the company field renders for a state of the companies query: the
\* dropdown, disabled while loading, its options, and the form message.
EmpresaField(q, data, message) ==
  [disabled |-> q = "pending",
   options |-> IF q = "success" THEN data ELSE {},
   message |-> message]

\* The subgroup dropdown disabled by the company instead of the group.
subgrupoDisabledByEmpresa == selectedEmpresa = "" \/ loadingSubgrupos

\* `disabled` of the group, subgroup and product dropdowns.
grupoDisabled == selectedEmpresa = "" \/ loadingGrupos
subgrupoDisabled == selectedGrupo = "" \/ loadingSubgrupos
materialDisabled == selectedEmpresa = "" \/ loadingMateriais

\* The options queries of the dropdowns answer.
GruposLoaded ==
  /\ loadingGrupos
  /\ loadingGrupos' = FALSE
  /\ UNCHANGED <<loadingSubgrupos, loadingMateriais, formVars, empresasVars, navVars,
                 hookVars, detailVars, resultsVars, dropdownVars, tableVars>>

SubgruposLoaded ==
  /\ loadingSubgrupos
  /\ loadingSubgrupos' = FALSE
  /\ UNCHANGED <<loadingGrupos, loadingMateriais, formVars, empresasVars, navVars,
                 hookVars, detailVars, resultsVars, dropdownVars, tableVars>>

MateriaisLoaded ==
  /\ loadingMateriais
  /\ loadingMateriais' = FALSE
  /\ UNCHANGED <<loadingGrupos, loadingSubgrupos, formVars, empresasVars, navVars,
                 hookVars, detailVars, resultsVars, dropdownVars, tableVars>>

\* onValueChange of the company dropdown.
SelectEmpresa ==
  /\ route = "home"
  /\ ~loadingEmpresas
  /\ \E e \in empresas :
       /\ e # form.empresa_id
       /\ Becomes(FormState([form EXCEPT !.empresa_id = e], e, selectedGrupo,
                            selectedSubgrupo))
  /\ UNCHANGED <<formError, empresasVars, loadingGrupos, navVars, hookVars, detailVars, resultsVars, dropdownVars, tableVars>>

\* onValueChange of the group dropdown.
SelectGrupo ==
  /\ route = "home"
  /\ ~grupoDisabled
  /\ \E g \in Grupos :
       /\ g # form.grupo_id
       /\ Becomes(FormState([form EXCEPT !.grupo_id = g], selectedEmpresa, g,
                            selectedSubgrupo))
  /\ UNCHANGED <<formError, empresasVars, loadingGrupos, navVars, hookVars, detailVars, resultsVars, dropdownVars, tableVars>>

\* onValueChange of the subgroup dropdown.
SelectSubgrupo ==
  /\ route = "home"
  /\ ~subgrupoDisabled
  /\ \E sg \in SubgruposDe(selectedGrupo) :
       /\ sg # form.subgrupo_id
       /\ Becomes(FormState([form EXCEPT !.subgrupo_id = sg], selectedEmpresa,
                            selectedGrupo, sg))
  /\ UNCHANGED <<formError, empresasVars, loadingGrupos, navVars, hookVars, detailVars, resultsVars, dropdownVars, tableVars>>

\* onValueChange of the product dropdown.
SelectMaterial ==
  /\ route = "home"
  /\ ~materialDisabled
  /\ \E m \in MateriaisDe(selectedGrupo, selectedSubgrupo) :
       /\ m # form.material_id
       /\ Becomes(FormState([form EXCEPT !.material_id = m], selectedEmpresa,
                            selectedGrupo, selectedSubgrupo))
  /\ UNCHANGED <<formError, empresasVars, loadingGrupos, navVars, hookVars, detailVars, resultsVars, dropdownVars, tableVars>>

\* onCheckedChange of one of the three checkboxes.
ToggleFlag ==
  /\ route = "home"
  /\ \E name \in FlagNames : form' = [form EXCEPT ![name] = ~form[name]]
  /\ UNCHANGED <<selectedEmpresa, selectedGrupo, selectedSubgrupo, formError,
                 empresasVars, optionVars, navVars, hookVars, detailVars, resultsVars, dropdownVars, tableVars>>

\* "Limpar Filtros".
clearFilters ==
  /\ route = "home"
  /\ Current # FormState(DefaultForm, "", "", "") \/ formError # ""
  /\ Becomes(FormState(DefaultForm, "", "", ""))
  /\ formError' = ""
  /\ UNCHANGED <<empresasVars, loadingGrupos, navVars, hookVars, detailVars, resultsVars, dropdownVars, tableVars>>

BoolText(b) == IF b THEN "true" ELSE "false"

\* onSubmit: the values of the form without the empty ones, as the query
\* string of the results page.
objectToQueryString(data) ==
  [empresa_id |-> data.empresa_id, grupo_id |-> data.grupo_id,
   subgrupo_id |-> data.subgrupo_id, material_id |-> data.material_id,
   apenas_divergentes |-> BoolText(data.apenas_divergentes),
   saldos_positivos_siagri |-> BoolText(data.saldos_positivos_siagri),
   saldos_positivos_cigam |-> BoolText(data.saldos_positivos_cigam)]

\* filtersSchema: the message for the form values, "" when they are valid.
filtersSchema(data) ==
  IF Len(data.empresa_id) >= 1 THEN "" ELSE "Selecione uma empresa"

\* The filter form is unmounted: its state is lost.
FormUnmounted ==
  /\ form' = DefaultForm
  /\ selectedEmpresa' = ""
  /\ selectedGrupo' = ""
  /\ selectedSubgrupo' = ""
  /\ formError' = ""
  /\ loadingSubgrupos' = FALSE
  /\ loadingMateriais' = FALSE

(***************************************************************************)
(* useApiQuery and the API client.  The hook writes a key of its own in    *)
(* requestKeyRef and cancels by that key; the client keeps the requests in *)
(* flight under the key each was started with.                             *)
(***************************************************************************)
\* `query-${queryKeyString}-${Date.now()}-${Math.random()}` of the n-th run.
HookKey(n) == <<"query", n>>

\* The key the client holds the n-th request under: options.queryFn() is
\* called without arguments, so it is a key of the client's own.
RegisteredKey(n) == <<"client", n>>

\* api.cancelRequest(key): the request in flight under the key is aborted.
cancelRequest(reqs, key) ==
  [n \in DOMAIN reqs |->
     IF reqs[n] = "inflight" /\ RegisteredKey(n) = key THEN "cancelled" ELSE reqs[n]]

\* `if (requestKeyRef.current) api.cancelRequest(requestKeyRef.current)`.
CancelCurrent(reqs) ==
  IF requestKeyRef # 0 THEN cancelRequest(reqs, HookKey(requestKeyRef)) ELSE reqs

\* wrappedQueryFn: cancels by the key of the ref, writes a new key in the
\* ref and calls queryFn, which starts a request.
wrappedQueryFn ==
  /\ nRequests < MaxRequests
  /\ nRequests' = nRequests + 1
  /\ requestKeyRef' = nRequests + 1
  /\ requests' = [CancelCurrent(requests) EXCEPT ![nRequests + 1] = "inflight"]

\* ResultsContent: the filters are the non-empty search parameters, and the
\* balances query runs with them when the page mounts.
ShowResults(params, from) ==
  /\ route' = "results"
  /\ origin' = from
  /\ searchParams' = params
  /\ saldosRequest' = [sent |-> TRUE, filters |-> params]
  /\ wrappedQueryFn
  /\ saldosQuery' = [status |-> "pending", failureCount |-> 0, error |-> ""]

\* form.handleSubmit(onSubmit): invalid values show the message and stay on
\* the page; valid values navigate to the results page.
SubmitFilters ==
  /\ route = "home"
  /\ IF filtersSchema(form) = ""
     THEN /\ ShowResults(objectToQueryString(form), "form")
          /\ FormUnmounted
     ELSE /\ formError = ""
          /\ formError' = filtersSchema(form)
          /\ UNCHANGED <<form, selectedEmpresa, selectedGrupo, selectedSubgrupo,
                         loadingSubgrupos, loadingMateriais, navVars, hookVars>>
  /\ UNCHANGED <<empresasVars, loadingGrupos, detailVars, resultsVars, dropdownVars, tableVars>>

\* Addresses of the results page opened directly: typed, bookmarked, shared.
UrlSamples ==
  { NoParams,
    [NoParams EXCEPT !.apenas_divergentes = "true"],
    [NoParams EXCEPT !.empresa_id = "1"],
    [NoParams EXCEPT !.grupo_id = "10", !.subgrupo_id = "21"] }

\* The results page is opened by its address.
OpenResultsUrl ==
  /\ route = "home"
  /\ \E params \in UrlSamples : ShowResults(params, "url")
  /\ FormUnmounted
  /\ UNCHANGED <<empresasVars, loadingGrupos, detailVars, resultsVars, dropdownVars, tableVars>>

\* The balances query runs again on the mounted page: its cache entry was
\* invalidated, or the connection came back.
Refetch ==
  /\ route = "results"
  /\ wrappedQueryFn
  /\ saldosQuery' = IF saldosQuery.status = "success"
                    THEN saldosQuery
                    ELSE [status |-> "pending", failureCount |-> 0, error |-> ""]
  /\ UNCHANGED <<formVars, empresasVars, optionVars, navVars, detailVars, resultsVars, dropdownVars, tableVars>>

\* The request the mounted page waits for.
Awaited(n) == route = "results" /\ requestKeyRef = n

\* A request in flight is answered; the query of the page that waits for
\* it succeeds.
RequestSettles ==
  /\ \E n \in 1..MaxRequests :
       /\ requests[n] = "inflight"
       /\ requests' = [requests EXCEPT ![n] = "answered"]
       /\ saldosQuery' = IF Awaited(n)
                         THEN [status |-> "success", failureCount |-> 0, error |-> ""]
                         ELSE saldosQuery
  /\ UNCHANGED <<requestKeyRef, nRequests, formVars, empresasVars, optionVars, navVars,
                 detailVars, resultsVars, dropdownVars, tableVars>>

\* The ways a request ends without an answer: aborted by the client
\* ('Requisição cancelada', no status), refused (404), failed (500).
Rejections ==
  { [ended |-> "cancelled", message |-> "Requisição cancelada", status |-> 0],
    [ended |-> "failed", message |-> "HTTP 404", status |-> 404],
    [ended |-> "failed", message |-> "HTTP 500", status |-> 500] }

\* The catch of wrappedQueryFn: the error it throws to the query.
Rethrown(rej) ==
  IF rej.message = "Requisição cancelada"
  THEN [rej EXCEPT !.message = "Query cancelled"]
  ELSE rej

\* defaultOptions.queries.retry(failureCount, error).
queriesRetry(count, status) ==
  IF status >= 400 /\ status < 500 THEN FALSE
  ELSE count < QueryMaxFailures

\* The request the page waits for is rejected: wrappedQueryFn rethrows, the
\* retry policy is asked, and the query either runs wrappedQueryFn again or
\* goes into the error state.
RequestRejects ==
  /\ \E n \in 1..MaxRequests : \E rej \in Rejections :
       /\ requests[n] = "inflight"
       /\ Awaited(n)
       /\ LET thrown == Rethrown(rej)
              ended == [requests EXCEPT ![n] = rej.ended]
          IN IF queriesRetry(saldosQuery.failureCount, thrown.status)
             THEN /\ nRequests < MaxRequests
                  /\ nRequests' = nRequests + 1
                  /\ requestKeyRef' = nRequests + 1
                  /\ requests' = [CancelCurrent(ended) EXCEPT ![nRequests + 1] = "inflight"]
                  /\ saldosQuery' = [saldosQuery EXCEPT !.failureCount = @ + 1]
             ELSE /\ requests' = ended
                  /\ saldosQuery' = [saldosQuery EXCEPT !.status = "error",
                                                         !.error = thrown.message]
                  /\ UNCHANGED <<requestKeyRef, nRequests>>
  /\ UNCHANGED <<formVars, empresasVars, optionVars, navVars, detailVars, resultsVars,
                 dropdownVars, tableVars>>

\* "Voltar": the results page is unmounted, the cleanup of the hook runs,
\* the filter page is mounted again.
BackHome ==
  /\ route = "results" /\ detailRow = NoDetail
  /\ route' = "home"
  /\ origin' = "none"
  /\ searchParams' = NoParams
  /\ saldosRequest' = NoRequest
  /\ requests' = CancelCurrent(requests)
  /\ saldosQuery' = IdleQuery
  /\ UNCHANGED <<requestKeyRef, nRequests, formVars, empresasVars, optionVars, detailVars,
                 resultsVars, dropdownVars, tableVars>>

\* The browser reloads the filter page: the document is requested again by
\* its address, requests in flight are dropped, the components start from
\* their initial state.
Reload ==
  /\ route = "home"
  /\ \/ Current # FormState(DefaultForm, "", "", "")
     \/ empresasQuery # "pending"
     \/ ~loadingGrupos
  /\ FormUnmounted
  /\ empresasQuery' = "pending"
  /\ empresasData' = {}
  /\ loadingGrupos' = TRUE
  /\ requestKeyRef' = 0
  /\ requests' = [n \in DOMAIN requests |->
                    IF requests[n] = "inflight" THEN "cancelled" ELSE requests[n]]
  /\ UNCHANGED <<nRequests, saldosQuery, navVars, detailVars, resultsVars, dropdownVars, tableVars>>

(***************************************************************************)
(* The material page opened by its address.                                *)
(***************************************************************************)
DetailIds == MatIds \cup {"M9"}

\* How getDetalheMaterial can end for a material: the backend answers with
\* the detail when the material exists and with 404 when it does not; the
\* call can also fail with a server error, a network error or a timeout.
DetailOutcomes(id) ==
  (IF id \in MatIds THEN {"ok"} ELSE {"not_found"})
    \cup {"server_error", "network_error", "timeout"}

\* `api.getDetalheMaterial(params.id, '1')`: the company of the page.
PlaceholderEmpresa == "1"

\* MaterialPage: the detail, or notFound() when the call throws.
MaterialPage(ended) ==
  IF ended = "ok" THEN "detail" ELSE "not-found"

\* /material/[id] is requested.
OpenMaterial ==
  /\ route = "home"
  /\ \E id \in DetailIds :
       /\ detailId' = id
       /\ detailSent' = [material |-> id, empresa |-> PlaceholderEmpresa]
  /\ detailRow' = NoDetail
  /\ route' = "material"
  /\ detailAnswer' = ""
  /\ detailView' = "loading"
  /\ FormUnmounted
  /\ UNCHANGED <<origin, searchParams, saldosRequest, empresasVars, loadingGrupos, hookVars,
                 resultsVars, dropdownVars, tableVars>>

\* getDetalheMaterial ends and the page is rendered.
MaterialAnswer ==
  /\ route = "material" /\ detailView = "loading"
  /\ \E ended \in DetailOutcomes(detailId) :
       /\ detailAnswer' = ended
       /\ detailView' = MaterialPage(ended)
  /\ UNCHANGED <<detailId, detailRow, detailSent, formVars, empresasVars, optionVars, navVars,
                 hookVars, resultsVars, dropdownVars, tableVars>>

\* "Voltar aos resultados": a link to /results without parameters; from the
\* not-found page the operator goes back to the start.
LeaveMaterial ==
  /\ route = "material" /\ detailView # "loading"
  /\ detailId' = ""
  /\ detailRow' = NoDetail
  /\ detailSent' = NoDetail
  /\ detailAnswer' = ""
  /\ detailView' = "none"
  /\ IF detailView = "detail" /\ nRequests < MaxRequests
     THEN ShowResults(NoParams, "url")
     ELSE route' = "home" /\ UNCHANGED <<origin, searchParams, saldosRequest, hookVars>>
  /\ UNCHANGED <<formVars, empresasVars, optionVars, resultsVars, dropdownVars, tableVars>>

\* The rows the results page can show for its filters: a row of each
\* material, of the company of the filter or of any company without one.
RowsShown ==
  {[material |-> m, empresa |-> e] :
     m \in MatIds,
     e \in (IF searchParams.empresa_id # "" THEN {searchParams.empresa_id} ELSE Empresas)}

\* "Ver detalhes" of a row: router.push(`/material/${saldo.material}`); the
\* route is intercepted and MaterialModal queries the detail of params.id
\* with an empty company.
VerDetalhes ==
  /\ route = "results" /\ detailRow = NoDetail
  /\ \E row \in RowsShown :
       /\ detailRow' = row
       /\ detailId' = row.material
       /\ detailSent' = [material |-> row.material, empresa |-> ""]
  /\ UNCHANGED <<detailAnswer, detailView, formVars, empresasVars, optionVars, navVars,
                 hookVars, resultsVars, dropdownVars, tableVars>>

\* handleClose of MaterialModal: router.back() to the results page.
CloseDetail ==
  /\ route = "results" /\ detailRow # NoDetail
  /\ detailRow' = NoDetail
  /\ detailId' = ""
  /\ detailSent' = NoDetail
  /\ UNCHANGED <<detailAnswer, detailView, formVars, empresasVars, optionVars, navVars,
                 hookVars, resultsVars, dropdownVars, tableVars>>

InitPages ==
  /\ items = <<>>
  /\ db = DbOf(NoProduct)
  /\ dbBefore = DbOf(NoProduct)
  /\ srcA = NoData
  /\ srcB = NoData
  /\ InitModal
  /\ InitQuery
  /\ InitFilters

NextPages ==
  \/ EmpresasLoaded
  \/ EmpresasFailed
  \/ GruposLoaded
  \/ SubgruposLoaded
  \/ MateriaisLoaded
  \/ SelectEmpresa
  \/ SelectGrupo
  \/ SelectSubgrupo
  \/ SelectMaterial
  \/ ToggleFlag
  \/ clearFilters
  \/ SubmitFilters
  \/ OpenResultsUrl
  \/ Refetch
  \/ RequestSettles
  \/ BackHome
  \/ Reload
  \/ VerDetalhes
  \/ CloseDetail
  \/ OpenMaterial
  \/ MaterialAnswer
  \/ LeaveMaterial

SpecPages == InitPages /\ [][NextPages]_vars

\* The balances query of the results page with the ways its requests end.
NextQuery ==
  \/ OpenResultsUrl
  \/ Refetch
  \/ RequestSettles
  \/ RequestRejects
  \/ BackHome

SpecQuery == InitPages /\ [][NextQuery]_vars

(***************************************************************************)
(* DropdownSelect: the options it is given, the items it renders, the      *)
(* value it hands to onValueChange.  An option is its codigo; a codigo     *)
(* that is null or not a string has isString FALSE.                        *)
(***************************************************************************)
Option(code) == [codigo |-> code, isString |-> TRUE]

NullOption == [codigo |-> <<>>, isString |-> FALSE]

OptionSamples ==
  { Option(<<>>), Option(<<" ">>), Option(<<"K", "G">>), Option(<<"K", "G", " ">>),
    NullOption }

RECURSIVE ListsOf(_, _)
\* The sequences over a set, of length up to n.
ListsOf(S, n) ==
  IF n = 0 THEN {<<>>}
  ELSE LET shorter == ListsOf(S, n - 1)
       IN shorter \cup {Append(q, x) : q \in {r \in shorter : Len(r) = n - 1}, x \in S}

\* array.findIndex(item => item.codigo.trim() === code): 0 when none.
findIndex(array, code) ==
  IF \E k \in 1..Len(array) : Trim(array[k].codigo) = code
  THEN CHOOSE k \in 1..Len(array) :
         /\ Trim(array[k].codigo) = code
         /\ \A l \in 1..(k - 1) : Trim(array[l].codigo) # code
  ELSE 0

\* normalizedOptions: the options whose codigo is a string, the first of
\* each trimmed codigo, with the codigo trimmed.
normalizedOptions(opts) ==
  LET IsString(o) == o.isString
      strings == SelectSeq(opts, IsString)
      firsts == {k \in 1..Len(strings) : findIndex(strings, Trim(strings[k].codigo)) = k}
      Kept(k) == k \in firsts
      kept == SelectSeq([k \in 1..Len(strings) |-> k], Kept)
  IN [k \in 1..Len(kept) |-> [strings[kept[k]] EXCEPT !.codigo = Trim(@)]]

\* The options query of a dropdown answers and the dropdown renders.
OptionsLoaded ==
  /\ \E opts \in ListsOf(OptionSamples, MaxOptions) :
       /\ opts # options
       /\ options' = opts
       /\ shown' = normalizedOptions(opts)
  /\ UNCHANGED <<picked, resultsVars, formVars, empresasVars, optionVars, navVars,
                 hookVars, detailVars, tableVars>>

\* handleValueChange: the operator picks one of the items.
handleValueChange ==
  /\ \E k \in 1..Len(shown) :
       /\ picked' = Trim(shown[k].codigo)
       /\ picked' # picked
  /\ UNCHANGED <<options, shown, resultsVars, formVars, empresasVars, optionVars,
                 navVars, hookVars, detailVars, tableVars>>

NextDropdown ==
  \/ OptionsLoaded
  \/ handleValueChange

SpecDropdown == InitPages /\ [][NextDropdown]_vars

(***************************************************************************)
(* The results table and its pagination controls.  A row is its rank in    *)
(* the filtered result the server holds; saldosData.total rows exist.      *)
(***************************************************************************)
Ranks(n) == [k \in 1..n |-> k]

\* What is outside the table of the results page.
offTable == <<items, cmpVars, modalVars, toast, mutationVars, endpointVars, saldosStale,
              nEdits, formVars, empresasVars, optionVars, navVars, hookVars, detailVars,
              dropdownVars>>

\* The pagination argument of apiQueries.saldos(filters, {}): no page and
\* no size, written 0.
EmptyPagination == [page |-> 0, size |-> 0]

\* The page the endpoint returns for the parameters of a request.
PageServed(n, sent) ==
  PageOf(Ranks(n),
         IF sent.page = 0 THEN DefaultPage ELSE sent.page,
         IF sent.size = 0 THEN DefaultSize ELSE sent.size)

\* The balances query of the page answers: the table shows the rows of
\* the answer (manualPagination: the data is taken as one page).
TableLoaded ==
  /\ pagingSent = <<>>
  /\ \E n \in 0..MaxRows :
       /\ total' = n
       /\ tableRows' = PageServed(n, EmptyPagination)
  /\ pagingSent' = <<EmptyPagination>>
  /\ pagination' = [pageIndex |-> 0, pageSize |-> PageSize]
  /\ UNCHANGED offTable

getCanPreviousPage == pagination.pageIndex > 0

getCanNextPage ==
  LET count == pageCount(pagingSent # <<>>, total, pagination.pageSize)
  IN IF count = 0 THEN FALSE ELSE pagination.pageIndex < count - 1

\* "Próxima": table.nextPage() sets the page index; the key of the query
\* does not hold the pagination, so nothing is requested.
nextPage ==
  /\ pagingSent # <<>>
  /\ getCanNextPage
  /\ pagination' = [pagination EXCEPT !.pageIndex = @ + 1]
  /\ UNCHANGED <<total, tableRows, pagingSent, offTable>>

\* "Anterior": table.previousPage().
previousPage ==
  /\ pagingSent # <<>>
  /\ getCanPreviousPage
  /\ pagination' = [pagination EXCEPT !.pageIndex = @ - 1]
  /\ UNCHANGED <<total, tableRows, pagingSent, offTable>>

\* The results page is left: its state is gone.
TableLeft ==
  /\ pagingSent # <<>>
  /\ pagingSent' = <<>>
  /\ tableRows' = <<>>
  /\ total' = 0
  /\ pagination' = [pageIndex |-> 0, pageSize |-> PageSize]
  /\ UNCHANGED offTable

NextTable ==
  \/ TableLoaded
  \/ nextPage
  \/ previousPage
  \/ TableLeft

SpecTable == InitPages /\ [][NextTable]_vars

(***************************************************************************)
(* Properties of the update flow.                                          *)
(***************************************************************************)
InSeq(x, q) == \E i \in 1..Len(q) : q[i] = x

ValidSaldo(str) == ~isNaN(parseFloat(str)) /\ parseFloat(str).v >= 0

NcmSupplied(f) == Truthy(Trim(f.codi_cfp))

BadNcm(f) == NcmSupplied(f) /\ Len(Trim(f.codi_cfp)) # NcmLen

MissingRequired(f) == ~Truthy(Trim(f.desc_psv)) \/ ~Truthy(Trim(f.unid_psv))

OtherChecksPass(f) ==
  /\ ValidSaldo(f.saldo_siagri)
  /\ ValidSaldo(f.saldo_cigam)
  /\ ~MissingRequired(f)

\* No request leaves the client and the endpoint writes nothing.
NothingIssued == UNCHANGED <<mutationVars, endpointVars>>

\* C1: a submission whose NCM is supplied (non-empty after trimming) with a
\* length other than 8 is rejected: no update request is issued and nothing
\* is written; with an NCM of exactly 8 characters (or none) a submission
\* that passes the other checks issues the request with that NCM, and the
\* endpoint never runs its writes on an NCM of another length.
C1_NcmLength ==
  /\ [][handleSubmit =>
          IF BadNcm(formData)
          THEN NothingIssued
          ELSE OtherChecksPass(formData) =>
                 /\ reqState' = "inflight"
                 /\ mutVars'.codi_cfp = Trim(formData.codi_cfp)]_vars
  /\ [](orchPc = "steps" =>
          (Truthy(orchPayload.codi_cfp) => Len(orchPayload.codi_cfp) = NcmLen))

\* The operator typed a 7-digit NCM, submitted, and got the NCM toast.
C1_Witness ==
  /\ editModalOpen
  /\ toast = MsgNcm
  /\ Len(Trim(formData.codi_cfp)) = NcmLen - 1
  /\ formData.codi_cfp # selectedProduct.ncm_cla_fiscal
  /\ reqState = "none" /\ mutStatus = "idle"

Oversize(d) ==
  \/ Len(d.desc_psv) > DescMax
  \/ Len(d.unid_psv) > UnidMax
  \/ Len(d.clas_psv) > CharMax
  \/ Len(d.prse_psv) > CharMax

\* C2: no update request carries a value wider than its column (description
\* over 120, unit over 10, clas_psv or prse_psv over 1 character).
C2_OversizeNeverRequested == reqState = "inflight" => ~Oversize(mutVars)

\* A request in flight with a description of 121 characters.
C2_Witness ==
  /\ reqState = "inflight" /\ reqIssuer = "submit"
  /\ Len(mutVars.desc_psv) = DescMax + 1

\* C3: a submission whose description or unit is empty after trimming is
\* rejected with a toast: no update request is issued, nothing is written,
\* and no request in flight or being served lacks either field.
C3_RequiredFields ==
  /\ [][(handleSubmit /\ MissingRequired(formData)) =>
          /\ NothingIssued
          /\ toast' \in {MsgSiagri, MsgCigam, MsgDesc, MsgUnid}]_vars
  /\ [](reqState = "inflight" =>
          Truthy(mutVars.desc_psv) /\ Truthy(mutVars.unid_psv))

\* The operator left one blank as the description, submitted, and got the
\* toast of the description.
C3_Witness ==
  /\ editModalOpen
  /\ toast = MsgDesc
  /\ Truthy(formData.desc_psv) /\ ~Truthy(Trim(formData.desc_psv))
  /\ reqState = "none" /\ mutStatus = "idle"

PartialFailure ==
  /\ reqState = "responded"
  /\ resp.failedSteps # <<>>
  /\ InSeq(StepOrder[1], resp.committedSteps)

\* C4: when the response reports a failed step after PRODSERV committed,
\* the PRODSERV table holds the submitted values (nothing was rolled back),
\* every step in committedSteps has its value in its table, every step not
\* in committedSteps left its table as it was when the invocation began,
\* the failed steps are steps of the endpoint, and no step is in both lists.
C4_PartialFailureReport ==
  PartialFailure =>
    /\ db[StepOrder[1]] = StepValue(mutVars, StepOrder[1])
    /\ \A t \in Steps :
         IF InSeq(t, resp.committedSteps)
         THEN db[t] = StepValue(mutVars, t) /\ ~InSeq(t, resp.failedSteps)
         ELSE db[t] = dbBefore[t]
    /\ \A i \in 1..Len(resp.failedSteps) : resp.failedSteps[i] \in Steps
    /\ resp.status = 500

\* PRODSERV was changed and committed, PRODUTO failed, ESMATERI was skipped.
C4_Witness ==
  /\ PartialFailure
  /\ resp.committedSteps = <<"PRODSERV">>
  /\ resp.failedSteps = <<"PRODUTO">>
  /\ db["PRODSERV"] # dbBefore["PRODSERV"]
  /\ db["PRODUTO"] = dbBefore["PRODUTO"]

Began(t) == stepState[t] # "running" /\ stepState'[t] = "running"

\* C5: within one invocation PRODUTO is issued only when PRODSERV has
\* committed, ESMATERI only when PRODUTO has finished (committed or failed)
\* and PRODSERV has committed, PRODSERV only while the other two have not
\* been issued, and at most one step is in progress at any time.
C5_OrderedWrites ==
  /\ [][/\ Began("PRODSERV") =>
             stepState["PRODUTO"] = "idle" /\ stepState["ESMATERI"] = "idle"
        /\ Began("PRODUTO") =>
             stepState["PRODSERV"] = "committed" /\ stepState["ESMATERI"] = "idle"
        /\ Began("ESMATERI") =>
             /\ stepState["PRODSERV"] = "committed"
             /\ stepState["PRODUTO"] \in {"committed", "failed"}]_vars
  /\ [](Cardinality({t \in Steps : stepState[t] = "running"}) <= 1)

\* The third write in progress after the first two committed.
C5_Witness ==
  /\ stepState["PRODSERV"] = "committed"
  /\ stepState["PRODUTO"] = "committed"
  /\ stepState["ESMATERI"] = "running"

\* C6: every update request in flight was issued by the operator's submit,
\* never by the client on its own after a failure.
C6_NoAutomaticReissue == reqState = "inflight" => reqIssuer = "submit"

\* The request is in flight again after a failure, PRODSERV already written
\* by the first attempt, with no action of the operator in between.
C6_Witness ==
  /\ reqState = "inflight" /\ reqIssuer = "retry"
  /\ failureCount = MutationMaxFailures
  /\ db["PRODSERV"] = StepValue(mutVars, "PRODSERV")
  /\ db["PRODSERV"] # RowValue(items[1], "PRODSERV")

(***************************************************************************)
(* Properties of the comparison query and of the preview of the modal.     *)
(***************************************************************************)
Reported(src, m) == IF src[m].present THEN src[m].qty ELSE 0

RowsOf(q) == {q[i] : i \in 1..Len(q)}

\* C7: the two adapters are invoked together; a result exists only when
\* both adapters succeeded, and it is the comparison of what both systems
\* hold; once an adapter failed or timed out no result is produced; an
\* error names a system whose adapter failed or timed out and shows no row.
C7_BothOrError ==
  /\ adapter["A"] = "idle" <=> adapter["B"] = "idle"
  /\ outcome = "result" =>
       /\ \A s \in Systems : adapter[s] = "ok"
       /\ fetched["A"] = srcA /\ fetched["B"] = srcB
       /\ items = ApplyFilters(ComparisonQuery(srcA, srcB), flags)
  /\ (\E s \in Systems : adapter[s] \in {"failed", "timeout"}) =>
       outcome # "result"
  /\ outcome = "error" =>
       /\ errorSystem \in Systems
       /\ adapter[errorSystem] \in {"failed", "timeout"}
       /\ items = <<>>

\* SIAGRI answered with data, CIGAM timed out: the query failed naming B.
C7_Witness ==
  /\ outcome = "error" /\ errorSystem = "B"
  /\ adapter["A"] = "ok" /\ adapter["B"] = "timeout"
  /\ \E m \in MatIds : fetched["A"][m].present
  /\ items = <<>>

CountedAs(r) == stats(<<r>>)

\* C8: every row of a result is counted by presence: as only-in-SIAGRI
\* exactly when CIGAM does not report the material, as only-in-CIGAM exactly
\* when SIAGRI does not report it, as matching exactly when both report it
\* with equal quantities, as divergent exactly when both report it with
\* different quantities.
C8_ClassificationByPresence ==
  outcome = "result" =>
    \A i \in 1..Len(items) :
      LET r == items[i]
          inA == srcA[r.material].present
          inB == srcB[r.material].present
      IN /\ CountedAs(r).apenas_siagri = 1 <=> ~inB
         /\ CountedAs(r).apenas_cigam = 1 <=> ~inA
         /\ CountedAs(r).ok = 1 <=> (inA /\ inB /\ r.saldo_siagri = r.saldo_cigam)
         /\ CountedAs(r).divergentes = 1 <=> (inA /\ inB /\ r.saldo_siagri # r.saldo_cigam)

\* A material that both systems report, with 0 in CIGAM and a positive
\* quantity in SIAGRI, is counted as only-in-SIAGRI.
C8_Witness ==
  /\ outcome = "result"
  /\ \E i \in 1..Len(items) :
       /\ srcA[items[i].material].present /\ srcA[items[i].material].qty > 0
       /\ srcB[items[i].material] = Held(0)
       /\ CountedAs(items[i]).apenas_siagri = 1

TypedQuantities == {0, 100, 300}

\* The quantity a text of the form stands for; an empty field stands for 0.
TypedValue(t) ==
  IF \E v \in TypedQuantities : NumToString(v) = t
  THEN CHOOSE v \in TypedQuantities : NumToString(v) = t
  ELSE 0

C10_DivergentOnly ==
  outcome = "result" =>
    LET all == ComparisonQuery(srcA, srcB)
        without == ApplyFilters(all, [flags EXCEPT !.apenas_divergentes = FALSE])
        with == ApplyFilters(all, [flags EXCEPT !.apenas_divergentes = TRUE])
    IN /\ RowsOf(with) \subseteq RowsOf(without)
       /\ \A r \in RowsOf(with) : r.saldo_siagri # r.saldo_cigam
       /\ DivergentOnly(with) = with
       /\ flags.apenas_divergentes => items = with
       /\ validateResults(items, flags)

\* A result asked with the flag: one row kept, one matching row left out.
C10_Witness ==
  /\ outcome = "result" /\ flags.apenas_divergentes
  /\ Len(items) = 1
  /\ Len(ApplyFilters(ComparisonQuery(srcA, srcB),
                      [flags EXCEPT !.apenas_divergentes = FALSE])) = 2

Only(name) == [NoFlags EXCEPT ![name] = TRUE]

\* C11: the rows of a result are the rows common to the results of each set
\* flag applied alone (all the rows of the comparison when no flag is set),
\* in the order of the comparison; so a flag that is not set removes no row.
C11_FlagsIntersect ==
  outcome = "result" =>
    LET all == ComparisonQuery(srcA, srcB)
        Alone(name) == RowsOf(ApplyFilters(all, Only(name)))
        Common == {r \in RowsOf(all) :
                     \A name \in FlagNames : flags[name] => r \in Alone(name)}
        InCommon(r) == r \in Common
    IN /\ items = SelectSeq(all, InCommon)
       /\ \A name \in FlagNames :
            ~flags[name] =>
              items = ApplyFilters(ApplyFilters(all, flags), [flags EXCEPT ![name] = FALSE])
       /\ ApplyFilters(all, NoFlags) = all

\* All three flags set: one row passes each of them, another row passes two
\* of them alone and is left out.
C11_Witness ==
  /\ outcome = "result"
  /\ \A name \in FlagNames : flags[name]
  /\ Len(items) = 1
  /\ Len(ComparisonQuery(srcA, srcB)) = 2
  /\ \E r \in RowsOf(ComparisonQuery(srcA, srcB)) :
       /\ r \notin RowsOf(items)
       /\ r \in RowsOf(ApplyFilters(ComparisonQuery(srcA, srcB), Only("apenas_divergentes")))
       /\ r \in RowsOf(ApplyFilters(ComparisonQuery(srcA, srcB), Only("saldos_positivos_siagri")))

PageSizes == {1, 2, DefaultSize}

\* C12: the total of the pagination metadata is the number of rows of the
\* filtered set, whatever page index and page size are requested: it is
\* neither the number of rows of the unfiltered union nor the number of rows
\* of the page; the page count of the table follows from it.
C12_TotalOfFilteredSet ==
  outcome = "result" =>
    LET all == ComparisonQuery(srcA, srcB)
        Passes(r) == validateResults(<<r>>, flags)
        n == Len(SelectSeq(all, Passes))
    IN /\ total = n
       /\ \A page \in 1..MaxPage : \A size \in PageSizes :
            LET r == SaldoResponse(all, flags, page, size)
            IN /\ r.total = n
               /\ r.pages = pageCount(TRUE, total, size)
               /\ Len(r.items) <= size
       /\ pageCount(TRUE, total, PageSize) = (IF n = 0 THEN 0 ELSE 1)

C12_Witness ==
  /\ outcome = "result"
  /\ flags.apenas_divergentes
  /\ total = 1
  /\ Len(ComparisonQuery(srcA, srcB)) = 2
  /\ Len(SaldoResponse(ComparisonQuery(srcA, srcB), NoFlags, MaxPage, 1).items) = 1

ClassCount(s) == s.divergentes + s.apenas_siagri + s.apenas_cigam + s.ok

\* C13: the statistics count every row of a result under exactly one of
\* divergent, only-in-SIAGRI, only-in-CIGAM and matching, so the four counts
\* add up to the total number of rows.
C13_StatsPartition ==
  outcome = "result" =>
    /\ \A i \in 1..Len(items) : ClassCount(CountedAs(items[i])) = 1
    /\ ClassCount(stats(items)) = stats(items).total
    /\ stats(items).total = Len(items)

\* An active material that only SIAGRI holds a positive quantity of is
\* counted twice, as matching and as only-in-SIAGRI.
C13_Witness ==
  /\ outcome = "result"
  /\ Len(items) = 1
  /\ items[1].status = "A"
  /\ items[1].saldo_siagri > 0 /\ items[1].saldo_cigam = 0
  /\ stats(items).ok = 1 /\ stats(items).apenas_siagri = 1
  /\ ClassCount(stats(items)) = 2

\* C14: the balances query is called only with a company: the form rejects
\* values without a company with a validation message and does not navigate,
\* and no query is sent for a results page whose filters have no company.
C14_CompanyRequired ==
  /\ formError # "" => (route = "home" /\ ~saldosRequest.sent)
  /\ origin = "form" => searchParams.empresa_id # ""
  /\ saldosRequest.sent => saldosRequest.filters.empresa_id # ""

\* The results page opened by an address without a company calls the query.
C14_Witness ==
  /\ route = "results"
  /\ origin = "url"
  /\ searchParams.empresa_id = ""
  /\ searchParams.apenas_divergentes = "true"
  /\ saldosRequest.sent
  /\ saldosRequest.filters = searchParams

Belongs(f) ==
  (f.grupo_id # "" /\ f.subgrupo_id # "") => f.subgrupo_id \in SubgruposDe(f.grupo_id)

ClearsDependents ==
  /\ form'.empresa_id # form.empresa_id =>
       form'.grupo_id = "" /\ form'.subgrupo_id = "" /\ form'.material_id = ""
  /\ form'.grupo_id # form.grupo_id =>
       form'.subgrupo_id = "" /\ form'.material_id = ""
  /\ form'.subgrupo_id # form.subgrupo_id => form'.material_id = ""

\* C15: whatever was selected and cleared, the subgroup of the form belongs
\* to the group of the form, and so does the subgroup of a submitted filter;
\* a step that changes the company leaves group, subgroup and material
\* empty, one that changes the group leaves subgroup and material empty, one
\* that changes the subgroup leaves the material empty.
C15_DependentFilters ==
  /\ [](Belongs(form) /\ (origin = "form" => Belongs(searchParams)))
  /\ [][ClearsDependents]_vars

C15_Witness ==
  /\ route = "results"
  /\ origin = "form"
  /\ searchParams.empresa_id = "2"
  /\ searchParams.grupo_id = "20"
  /\ searchParams.subgrupo_id = "21"
  /\ searchParams.material_id = "M2"

RECURSIVE PagesUpTo(_, _, _, _)
\* The items of the pages 1..n of a request, one after the other.
PagesUpTo(all, fl, n, size) ==
  IF n = 0 THEN <<>>
  ELSE PagesUpTo(all, fl, n - 1, size) \o SaldoResponse(all, fl, n, size).items

Ascending(rows) ==
  \A i \in 1..Len(rows) : \A j \in 1..Len(rows) :
    i < j => MatCode[rows[i].material] < MatCode[rows[j].material]

BalanceFields == {"novo_saldo_siagri", "novo_saldo_cigam"}

AttributeFields ==
  {"desc_psv", "unid_psv", "situ_psv", "clas_psv", "codi_cfp", "codi_gpr",
   "codi_sbg", "codi_tip", "prse_psv"}

SameBalances(p, f) ==
  f.saldo_siagri = FormOf(p).saldo_siagri /\ f.saldo_cigam = FormOf(p).saldo_cigam

SameAttributes(p, f) ==
  [f EXCEPT !.saldo_siagri = <<>>, !.saldo_cigam = <<>>]
    = [FormOf(p) EXCEPT !.saldo_siagri = <<>>, !.saldo_cigam = <<>>]

\* The form holds a balance-only correction: valid balances, one of them
\* new, every attribute as the row has it.
BalanceOnly(p, f) ==
  /\ SameAttributes(p, f) /\ ~SameBalances(p, f)
  /\ ValidSaldo(f.saldo_siagri) /\ ValidSaldo(f.saldo_cigam)

\* The form holds an attribute-only correction.
AttributeOnly(p, f) == SameBalances(p, f) /\ ~SameAttributes(p, f)

\* C17: a balance-only correction is accepted whatever the attributes of
\* the row are and its request supplies no attribute; the request of an
\* attribute-only correction supplies no balance.
C17_IndependentPaths ==
  (editModalOpen /\ hasProduct) =>
    /\ BalanceOnly(selectedProduct, formData) => SubmitVerdict(formData) = ""
    /\ (reqState = "inflight" /\ mutVars = updateData(selectedProduct, formData)) =>
         /\ BalanceOnly(selectedProduct, formData) =>
              SuppliedFields(mutVars) \cap AttributeFields = {}
         /\ AttributeOnly(selectedProduct, formData) =>
              SuppliedFields(mutVars) \cap BalanceFields = {}

\* A new SIAGRI balance for a row whose stored unit is blank is refused
\* with the message of the unit.
C17_Witness ==
  /\ editModalOpen /\ hasProduct
  /\ selectedProduct.material = "M2"
  /\ BalanceOnly(selectedProduct, formData)
  /\ nEdits = 1
  /\ toast = MsgUnid
  /\ reqState = "none"

Failures == {"server_error", "network_error", "timeout"}

\* C18: the material page shows not-found only when the backend answered
\* that the material does not exist; a server error, a network error or a
\* timeout is shown as an error of its own.
C18_NotFoundOnlyWhenMissing ==
  /\ detailView = "not-found" => (detailAnswer = "not_found" /\ detailId \notin MatIds)
  /\ detailAnswer \in Failures => detailView = "error"

\* An existing material whose request ended in a server error is shown as
\* not found.
C18_Witness ==
  /\ route = "material"
  /\ detailId = "M1"
  /\ detailAnswer = "server_error"
  /\ detailView = "not-found"

\* C19: a request started through useApiQuery is in flight only while the
\* page of the hook is mounted and only if it is the newest request of the
\* hook: unmounting and starting a newer request both cancel it.
C19_NoOrphanRequests ==
  \A n \in 1..MaxRequests :
    requests[n] = "inflight" => (route = "results" /\ requestKeyRef = n)

\* After the page was left twice, both requests are still in flight.
C19_Witness ==
  /\ route = "home"
  /\ nRequests = 2
  /\ requestKeyRef = 2
  /\ requests[1] = "inflight"
  /\ requests[2] = "inflight"

\* C20: when the companies query failed, the company field does not look
\* like the field of a query that succeeded with an empty list.
C20_FailureShown ==
  (route = "home" /\ empresasQuery = "error") =>
    EmpresaField(empresasQuery, empresasData, formError)
      # EmpresaField("success", {}, formError)

C20_Witness ==
  /\ route = "home"
  /\ empresasQuery = "error"
  /\ empresas = {}
  /\ ~loadingEmpresas
  /\ EmpresaField(empresasQuery, empresasData, formError)
       = [disabled |-> FALSE, options |-> {}, message |-> ""]

InUrl(field) == form[field] # "" => searchParams[field] = form[field]

\* C21: on the filter page the company and the group selected in the form
\* are in the parameters of the address, and a reload of the page leaves
\* both selections as they were.
C21_SelectionsInUrl ==
  /\ [](route = "home" => (InUrl("empresa_id") /\ InUrl("grupo_id")))
  /\ [][Reload => (form'.empresa_id = form.empresa_id /\ form'.grupo_id = form.grupo_id)]_vars

\* Company and group are selected and the address has no parameter.
C21_Witness ==
  /\ route = "home"
  /\ form.empresa_id = "1" /\ selectedEmpresa = "1"
  /\ form.grupo_id = "10" /\ selectedGrupo = "10"
  /\ searchParams = NoParams

\* C22: on the filter page a dropdown whose parent selection is empty is
\* disabled (group and product without company, subgroup without group),
\* and a dropdown whose parent is selected is enabled as soon as its own
\* options are not loading.
C22_SelectorsEnabled ==
  route = "home" =>
    /\ form.empresa_id = "" => (grupoDisabled /\ materialDisabled)
    /\ form.grupo_id = "" => subgrupoDisabled
    /\ (form.empresa_id # "" /\ ~loadingGrupos) => ~grupoDisabled
    /\ (form.grupo_id # "" /\ ~loadingSubgrupos) => ~subgrupoDisabled
    /\ (form.empresa_id # "" /\ ~loadingMateriais) => ~materialDisabled

\* A company is selected and no group: group and product are enabled, the
\* subgroup is disabled.
C22_Witness ==
  /\ route = "home"
  /\ form.empresa_id = "1" /\ form.grupo_id = ""
  /\ ~loadingGrupos /\ ~loadingMateriais
  /\ ~grupoDisabled /\ ~materialDisabled /\ subgrupoDisabled

\* C22 as stated: the subgroup dropdown is enabled whenever a group is
\* selected and the product dropdown whenever a company is selected, with
\* only the group dropdown waiting for its options.
C22_AsStated ==
  route = "home" =>
    /\ grupoDisabled <=> (form.empresa_id = "" \/ loadingGrupos)
    /\ subgrupoDisabled <=> form.grupo_id = ""
    /\ materialDisabled <=> form.empresa_id = ""

\* C23: the items a dropdown renders have no empty code and no two of them
\* have the same trimmed code.
C23_NoEmptyNoDuplicate ==
  /\ \A k \in 1..Len(shown) : Trim(shown[k].codigo) # <<>>
  /\ \A k \in 1..Len(shown) : \A l \in 1..Len(shown) :
       k # l => Trim(shown[k].codigo) # Trim(shown[l].codigo)

\* Of a blank code, "KG" and "KG " the dropdown renders an item with the
\* empty code and one "KG".
C23_Witness ==
  /\ options = <<Option(<<" ">>), Option(<<"K", "G">>), Option(<<"K", "G", " ">>)>>
  /\ shown = <<Option(<<>>), Option(<<"K", "G">>)>>

\* The request the page waits for is cancelled in this step.
CancelledHere ==
  \E n \in 1..MaxRequests :
    /\ Awaited(n)
    /\ requests[n] = "inflight"
    /\ requests'[n] = "cancelled"

\* C24: a cancelled request never puts the balances query into the error
\* state, and the step in which the request is cancelled starts no new
\* request.
C24_CancelNotFailure ==
  /\ [](saldosQuery.status = "error" => saldosQuery.error # "Query cancelled")
  /\ [][CancelledHere => nRequests' = nRequests]_vars

\* After four cancelled requests the results page shows its error card.
C24_Witness ==
  /\ route = "results"
  /\ saldosQuery = [status |-> "error", failureCount |-> QueryMaxFailures,
                    error |-> "Query cancelled"]
  /\ \A n \in 1..(QueryMaxFailures + 1) : requests[n] = "cancelled"

\* C25: the rows the table shows are the page of the filtered result at
\* the page index of the controls, and every change of the page index
\* sends a request with the new page and the page size.
C25_PageShown ==
  /\ [](pagingSent # <<>> =>
          tableRows = PageOf(Ranks(total), pagination.pageIndex + 1, pagination.pageSize))
  /\ [][(pagingSent # <<>> /\ pagination'.pageIndex # pagination.pageIndex
            /\ pagingSent' # <<>>)
          => /\ Len(pagingSent') = Len(pagingSent) + 1
             /\ pagingSent'[Len(pagingSent')]
                  = [page |-> pagination'.pageIndex + 1, size |-> pagination'.pageSize]]_vars

\* Of 51 rows, after "Próxima" the controls are on the second page and the
\* table still shows the first fifty rows; one request was sent.
C25_Witness ==
  /\ total = PageSize + 1
  /\ pagination.pageIndex = 1
  /\ tableRows = Ranks(PageSize)
  /\ pagingSent = <<EmptyPagination>>

\* C26: an update request that carries a group and a subgroup carries a
\* subgroup of that group.
C26_SubgroupOfGroup ==
  (mutStatus = "pending" /\ mutVars.codi_gpr # 0 /\ mutVars.codi_sbg # 0) =>
    CodeText(mutVars.codi_sbg) \in ModalSubgrupos(CodeText(mutVars.codi_gpr))

\* The row of group 80 and subgroup 81 was given group 90 in the modal and
\* the request carries group 90 with subgroup 81.
C26_Witness ==
  /\ mutStatus = "pending"
  /\ selectedProduct.codigo_grupo = 80 /\ selectedProduct.codigo_subgrupo = 81
  /\ formData.codi_gpr = <<"9", "0">> /\ formData.codi_sbg = <<"8", "1">>
  /\ mutVars.codi_gpr = 90 /\ mutVars.codi_sbg = 81

\* The form holds a value that is not the value of the row, in one of the
\* fields the operator can edit.
Differs(p, f) ==
  \/ NotSame(parseFloat(f.saldo_siagri), p.saldo_siagri)
  \/ NotSame(parseFloat(f.saldo_cigam), p.saldo_cigam)
  \/ \E fld \in {"desc_psv", "unid_psv", "situ_psv", "codi_cfp", "codi_gpr", "codi_sbg",
                  "codi_tip", "prse_psv"} : f[fld] # FormOf(p)[fld]

\* C27: while the modal is open and no update is pending, the save button
\* is enabled whenever an editable value differs from the value of the row.
C27_SaveEnabledOnChange ==
  (editModalOpen /\ hasProduct /\ ~isPending /\ Differs(selectedProduct, formData))
    => ~SubmitDisabled

\* The group of the row was changed from 80 to 90, nothing is pending and
\* the save button is disabled.
C27_Witness ==
  /\ editModalOpen /\ hasProduct /\ ~isPending
  /\ selectedProduct.codigo_grupo = 80
  /\ formData = [FormOf(selectedProduct) EXCEPT !.codi_gpr = <<"9", "0">>]
  /\ SubmitDisabled

\* The operator's submit starts an update in this step.
UpdateStarts ==
  /\ reqIssuer' = "submit" /\ reqState' = "inflight"
  /\ \/ reqState # "inflight"
     \/ mutVars' # mutVars
     \/ failureCount' # failureCount

\* C28: a request of the update is in flight only while the mutation is
\* pending; while it is pending the save button is disabled; and an update
\* starts only when no update is pending and no request is outstanding.
C28_OneUpdateInFlight ==
  /\ [](reqState # "none" => isPending)
  /\ []((editModalOpen /\ hasProduct /\ isPending) => SubmitDisabled)
  /\ [][UpdateStarts => (~isPending /\ reqState = "none" /\ orchPc = "idle")]_vars

\* The request is in flight, the modal is open with a form that differs
\* from the row, and the save button is disabled.
C28_Witness ==
  /\ editModalOpen /\ hasProduct
  /\ isPending /\ reqState = "inflight" /\ reqIssuer = "submit"
  /\ houveMudanca(selectedProduct, formData)
  /\ SubmitDisabled

\* The client takes a failed answer of the update in this step: it sends
\* the request again or the mutation ends in error.
FailureTaken ==
  /\ isPending /\ reqState = "responded" /\ Failed(resp)
  /\ reqState' # reqState

\* The mutation ends in success in this step.
UpdateSucceeds == isPending /\ mutStatus' = "success"

\* C29: a failed answer of the update leaves the modal and every value of
\* the form as they are and invalidates nothing; the success of the update
\* closes the modal, resets the form and invalidates the balances queries,
\* and nothing else invalidates them.
C29_FailureKeepsForm ==
  [][/\ FailureTaken =>
          UNCHANGED <<editModalOpen, formData, selectedProduct, hasProduct, saldosStale>>
     /\ UpdateSucceeds =>
          (~editModalOpen' /\ formData' = EmptyForm /\ ~hasProduct' /\ saldosStale')
     /\ saldosStale' # saldosStale => UpdateSucceeds]_vars

\* The update ended in error: the modal is open on the row with the values
\* the operator entered, the error toast is shown, nothing was invalidated.
C29_Witness ==
  /\ mutStatus = "error"
  /\ toast = MsgErr
  /\ editModalOpen /\ hasProduct
  /\ houveMudanca(selectedProduct, formData)
  /\ ~saldosStale

\* C30: the detail opened from a row is requested with the material code
\* and the company code of that row.
C30_DetailOfRow ==
  detailRow # NoDetail => detailSent = detailRow

\* The detail of a row of company 2 is requested with an empty company.
C30_Witness ==
  /\ route = "results"
  /\ detailRow = [material |-> "M1", empresa |-> "2"]
  /\ detailSent = [material |-> "M1", empresa |-> ""]

====
